---- MODULE Spec2Model ----
(***************************************************************************)
(* Model of the sonic-gnmi-standalone firmware / SONiC-image file listing  *)
(* query surface: the gNMI path classifiers (pkg/server/gnmi/path_utils),  *)
(* the Get handlers, the rootFS resolver, the directory inspector          *)
(* (pkg/server/gnoi/file, internal/file) and the client convenience        *)
(* methods (pkg/client/gnmi).                                              *)
(*                                                                         *)
(* Go strings that the code inspects byte by byte (paths, element names)   *)
(* are sequences of one-character strings, so that strings.HasPrefix and   *)
(* filepath.Clean/Join/Rel are computed, not assumed.  Map keys ("path",   *)
(* "directory"), status codes and error kinds are plain TLA+ strings.      *)
(***************************************************************************)
EXTENDS Integers, Sequences, FiniteSets, TLC

VARIABLES
    rootFS,          \* Server.rootFS: the configured filesystem root
    EnableGNOIFile,  \* config.Global.EnableGNOIFile
    fs,              \* the host filesystem the server runs on
    pc,              \* position of the process under study
    fsPath,          \* resolver study: the logical path handed to the resolver
    impl,            \* resolver study: which copy of the resolver ran
    resolved,        \* resolver study: resolveFilesystemPath(fsPath)
    reresolved,      \* resolver study: the resolver applied to its own result
    req,             \* server: the request being handled [handler, path]
    resp,            \* server: the handler's result [code, err, value]
    fsLog,           \* server: filesystem operations performed for this request
    call,            \* client: the convenience method being called
    reply,           \* client: what the Get RPC answered
    getCalls,        \* client: Get requests issued by this call
    result,          \* client: what the convenience method returned
    inflight,        \* server: the requests being handled at the same time
    imageName,       \* image study: the name handed to IsSonicImageFile
    isSonicImage     \* image study: what IsSonicImageFile returned

vars == <<rootFS, EnableGNOIFile, fs, pc, fsPath, impl, resolved, reresolved,
          req, resp, fsLog, call, reply, getCalls, result, inflight,
          imageName, isSonicImage>>

(***************************************************************************)
(* Bounds                                                                  *)
(***************************************************************************)
\* longest logical path string handed to the resolver study
MaxLen == 5
\* longest gNMI path (number of elements) a request carries
MaxElems == 6

(***************************************************************************)
(* Strings                                                                 *)
(***************************************************************************)
Slash == "/"
Dot == "."
EmptyStr == <<>>
DotDot == <<Dot, Dot>>

\* strings.HasPrefix(s, prefix)
HasPrefix(s, prefix) ==
    /\ Len(prefix) <= Len(s)
    /\ SubSeq(s, 1, Len(prefix)) = prefix

\* the path string starts at the filesystem root
IsAbsolute(p) == HasPrefix(p, <<Slash>>)

RECURSIVE SegAcc(_, _, _)
SegAcc(s, i, cur) ==
    IF i > Len(s) THEN <<cur>>
    ELSE IF s[i] = Slash THEN <<cur>> \o SegAcc(s, i + 1, <<>>)
    ELSE SegAcc(s, i + 1, Append(cur, s[i]))

\* the "/"-separated elements of a path string (empty elements included)
Segments(s) == SegAcc(s, 1, <<>>)

RECURSIVE JoinSegs(_)
JoinSegs(segs) ==
    IF Len(segs) = 0 THEN <<>>
    ELSE IF Len(segs) = 1 THEN segs[1]
    ELSE segs[1] \o <<Slash>> \o JoinSegs(Tail(segs))

RECURSIVE CleanAcc(_, _, _, _)
CleanAcc(segs, i, rooted, out) ==
    IF i > Len(segs) THEN out
    ELSE LET e == segs[i] IN
         IF e = <<>> \/ e = <<Dot>>
         THEN CleanAcc(segs, i + 1, rooted, out)            \* empty element, "."
         ELSE IF e = DotDot
         THEN IF Len(out) > 0 /\ out[Len(out)] # DotDot
              THEN CleanAcc(segs, i + 1, rooted, SubSeq(out, 1, Len(out) - 1))
              ELSE IF rooted
              THEN CleanAcc(segs, i + 1, rooted, out)       \* "/.." is "/"
              ELSE CleanAcc(segs, i + 1, rooted, Append(out, DotDot))
         ELSE CleanAcc(segs, i + 1, rooted, Append(out, e))

\* filepath.Clean on a Unix host
CleanOut(rooted, out) ==
    IF out = <<>>
    THEN (IF rooted THEN <<Slash>> ELSE <<Dot>>)
    ELSE (IF rooted THEN <<Slash>> ELSE <<>>) \o JoinSegs(out)

Clean(path) ==
    IF path = <<>> THEN <<Dot>>
    ELSE CleanOut(path[1] = Slash,
                  CleanAcc(Segments(path), 1, path[1] = Slash, <<>>))

\* filepath.Join(a, b) on a Unix host: empty elements are ignored, the rest is
\* joined with "/" and cleaned
Join(a, b) ==
    IF a = <<>> /\ b = <<>> THEN <<>>
    ELSE Clean(IF a = <<>> THEN b
               ELSE IF b = <<>> THEN a
               ELSE a \o <<Slash>> \o b)

(***************************************************************************)
(* RootFS resolver: three copies of the same function                      *)
(***************************************************************************)
\* mutant: the relative-path case joins with the root like the absolute one
resolveJoinsRelative(p, root) ==
    IF root = EmptyStr \/ root = <<Slash>> THEN p
    ELSE IF HasPrefix(p, root) THEN p
    ELSE Join(root, p)

\* internal/file: resolveFilesystemPath(fsPath, rootFS)
resolveFilesystemPath(p, root) ==
    IF root = EmptyStr \/ root = <<Slash>> THEN p
    ELSE IF HasPrefix(p, root) THEN p
    ELSE IF HasPrefix(p, <<Slash>>) THEN Join(root, p)
    ELSE p

\* pkg/server/gnoi/file: (s *Server) resolveFilesystemPath(fsPath), s.rootFS = root
gnoiResolveFilesystemPath(p, root) ==
    IF root = EmptyStr \/ root = <<Slash>> THEN p
    ELSE IF HasPrefix(p, root) THEN p
    ELSE IF HasPrefix(p, <<Slash>>) THEN Join(root, p)
    ELSE p

\* mutant: this copy alone normalizes a path that starts with the root
gnmiResolveNormalizing(p, root) ==
    IF root = EmptyStr \/ root = <<Slash>> THEN p
    ELSE IF HasPrefix(p, root) THEN Clean(p)
    ELSE IF HasPrefix(p, <<Slash>>) THEN Join(root, p)
    ELSE p

\* pkg/server/gnmi: (s *Server) resolveFilesystemPath(fsPath), s.rootFS = root
gnmiResolveFilesystemPath(p, root) ==
    IF root = EmptyStr \/ root = <<Slash>> THEN p
    ELSE IF HasPrefix(p, root) THEN p
    ELSE IF HasPrefix(p, <<Slash>>) THEN Join(root, p)
    ELSE p

Resolve(which, p, root) ==
    CASE which = "gnoi" -> gnoiResolveFilesystemPath(p, root)
      [] which = "internal" -> resolveFilesystemPath(p, root)
      [] which = "gnmi" -> gnmiResolveFilesystemPath(p, root)

(***************************************************************************)
(* Resolver study: inputs drawn at Init, the resolver applied once and     *)
(* then once more to its own result                                        *)
(***************************************************************************)
Alphabet == {Slash, Dot, "a", "b"}

RECURSIVE StringsOfLen(_)
StringsOfLen(n) ==
    IF n = 0 THEN {<<>>}
    ELSE {Append(s, c) : s \in StringsOfLen(n - 1), c \in Alphabet}

LogicalPaths == UNION {StringsOfLen(n) : n \in 0..MaxLen}

\* rootFS values a deployment configures: none, "/", a container mount point,
\* a nested mount point, a mount point written with a trailing slash
Roots == {EmptyStr, <<Slash>>, <<Slash, "a">>, <<Slash, "a", Slash, "b">>,
          <<Slash, "a", Slash>>}

NoStr == <<"?">>

IdleServer ==
    /\ EnableGNOIFile = FALSE
    /\ fs = [kind |-> (<<Slash>> :> "dir"), unreadable |-> {}, noInfo |-> {},
             sep |-> Slash]
    /\ req = [handler |-> "none", path |-> <<>>]
    /\ resp = [code |-> "none", err |-> "none", about |-> <<"?">>,
               value |-> [shape |-> "none"]]
    /\ fsLog = <<>>
    /\ inflight = <<>>

IdleClient ==
    /\ call = [method |-> "none", directory |-> EmptyStr, filename |-> EmptyStr]
    /\ reply = "none"
    /\ getCalls = <<>>
    /\ result = [err |-> "none"]

IdleImage ==
    /\ imageName = NoStr
    /\ isSonicImage = FALSE

InitResolve ==
    /\ rootFS \in Roots
    /\ fsPath \in LogicalPaths
    /\ pc = "start"
    /\ impl = "none"
    /\ resolved = NoStr
    /\ reresolved = NoStr
    /\ IdleServer
    /\ IdleClient
    /\ IdleImage

ResolveOnce(which) ==
    /\ pc = "start"
    /\ impl' = which
    /\ resolved' = Resolve(which, fsPath, rootFS)
    /\ pc' = "resolved"
    /\ UNCHANGED <<imageName, isSonicImage, inflight, rootFS, EnableGNOIFile, fs, fsPath, reresolved,
                   req, resp, fsLog, call, reply, getCalls, result>>

ResolveAgain ==
    /\ pc = "resolved"
    /\ reresolved' = Resolve(impl, resolved, rootFS)
    /\ pc' = "reresolved"
    /\ UNCHANGED <<imageName, isSonicImage, inflight, rootFS, EnableGNOIFile, fs, fsPath, impl, resolved,
                   req, resp, fsLog, call, reply, getCalls, result>>

ResolveGnoi == ResolveOnce("gnoi")
ResolveInternal == ResolveOnce("internal")
ResolveGnmi == ResolveOnce("gnmi")

NextResolve == ResolveGnoi \/ ResolveInternal \/ ResolveGnmi \/ ResolveAgain

SpecResolve == InitResolve /\ [][NextResolve]_vars

(***************************************************************************)
(* Path model: a gNMI path is a sequence of elements [Name, Key]           *)
(***************************************************************************)
SONIC == <<"s", "o", "n", "i", "c">>
SYSTEM == <<"s", "y", "s", "t", "e", "m">>
FILESYSTEM == <<"f", "i", "l", "e", "s", "y", "s", "t", "e", "m">>
FIRMWARE == <<"f", "i", "r", "m", "w", "a", "r", "e">>
SONIC_IMAGE == <<"s", "o", "n", "i", "c", "-", "i", "m", "a", "g", "e">>
DISK_SPACE == <<"d", "i", "s", "k", "-", "s", "p", "a", "c", "e">>
FILES == <<"f", "i", "l", "e", "s">>
COUNT == <<"c", "o", "u", "n", "t">>
LIST == <<"l", "i", "s", "t">>
TOTAL_MB == <<"t", "o", "t", "a", "l", "-", "m", "b">>
AVAILABLE_MB == <<"a", "v", "a", "i", "l", "a", "b", "l", "e", "-", "m", "b">>
OTHER_NAME == <<"x">>

NoKeys == [k \in {} |-> EmptyStr]
Elem(name) == [Name |-> name, Key |-> NoKeys]
KeyedElem(name, key, value) == [Name |-> name, Key |-> [k \in {key} |-> value]]

\* mutant: only the /sonic/system prefix is compared
isFilesystemPathPrefixOnly(path) ==
    /\ Len(path) >= 3
    /\ path[1].Name = SONIC
    /\ path[2].Name = SYSTEM

isFilesystemPath(path) ==
    /\ Len(path) >= 3
    /\ path[1].Name = SONIC
    /\ path[2].Name = SYSTEM
    /\ path[3].Name = FILESYSTEM

\* mutant: an absent key silently defaults to the empty path
extractFilesystemPathDefault(path) ==
    IF ~isFilesystemPath(path)
    THEN [val |-> EmptyStr, err |-> "NotAFilesystemPath"]
    ELSE IF "path" \notin DOMAIN path[3].Key
    THEN [val |-> EmptyStr, err |-> "nil"]
    ELSE [val |-> path[3].Key["path"], err |-> "nil"]

extractFilesystemPath(path) ==
    IF ~isFilesystemPath(path)
    THEN [val |-> EmptyStr, err |-> "NotAFilesystemPath"]
    ELSE IF "path" \notin DOMAIN path[3].Key
    THEN [val |-> EmptyStr, err |-> "PathNotSpecified"]
    ELSE [val |-> path[3].Key["path"], err |-> "nil"]

isDiskSpacePath(path) ==
    /\ isFilesystemPath(path)
    /\ Len(path) >= 4
    /\ path[4].Name = DISK_SPACE

getDiskSpaceField(path) ==
    IF ~isDiskSpacePath(path)
    THEN [val |-> EmptyStr, err |-> "NotADiskSpacePath"]
    ELSE IF Len(path) = 4 THEN [val |-> "both", err |-> "nil"]
    ELSE IF Len(path) = 5
    THEN (IF path[5].Name = TOTAL_MB THEN [val |-> "total", err |-> "nil"]
          ELSE IF path[5].Name = AVAILABLE_MB
          THEN [val |-> "available", err |-> "nil"]
          ELSE [val |-> EmptyStr, err |-> "UnknownDiskSpaceMetric"])
    ELSE [val |-> EmptyStr, err |-> "InvalidDiskSpacePath"]

validateDiskSpacePath(path) ==
    IF ~isDiskSpacePath(path) THEN "NotADiskSpacePath"
    ELSE IF Len(path) # 4 THEN "InvalidDiskSpacePath"
    ELSE "nil"

isFirmwarePath(path) ==
    /\ Len(path) >= 3
    /\ path[1].Name = SONIC
    /\ path[2].Name = SYSTEM
    /\ path[3].Name = FIRMWARE

extractFirmwareDirectory(path) ==
    IF ~isFirmwarePath(path)
    THEN [val |-> EmptyStr, err |-> "NotAFirmwarePath"]
    ELSE IF "directory" \notin DOMAIN path[3].Key
    THEN [val |-> EmptyStr, err |-> "DirectoryNotSpecified"]
    ELSE [val |-> path[3].Key["directory"], err |-> "nil"]

isFirmwareFilesPath(path) ==
    /\ isFirmwarePath(path)
    /\ Len(path) >= 4
    /\ path[4].Name = FILES

\* mutant: the length test of the field case is off by one
getFirmwareFileFieldOffByOne(path) ==
    IF ~isFirmwareFilesPath(path)
    THEN [val |-> EmptyStr, err |-> "NotAFirmwareFilesPath"]
    ELSE IF Len(path) = 4 THEN [val |-> LIST, err |-> "nil"]
    ELSE IF Len(path) >= 5
    THEN (IF path[5].Name = COUNT
          THEN [val |-> COUNT, err |-> "nil"]
          ELSE [val |-> path[5].Name, err |-> "nil"])
    ELSE [val |-> EmptyStr, err |-> "InvalidStructure"]

getFirmwareFileField(path) ==
    IF ~isFirmwareFilesPath(path)
    THEN [val |-> EmptyStr, err |-> "NotAFirmwareFilesPath"]
    ELSE IF Len(path) = 4 THEN [val |-> LIST, err |-> "nil"]
    ELSE IF Len(path) = 5
    THEN (IF path[5].Name = COUNT
          THEN [val |-> COUNT, err |-> "nil"]
          ELSE [val |-> path[5].Name, err |-> "nil"])
    ELSE [val |-> EmptyStr, err |-> "InvalidStructure"]

isSonicImagePath(path) ==
    /\ Len(path) >= 3
    /\ path[1].Name = SONIC
    /\ path[2].Name = SYSTEM
    /\ path[3].Name = SONIC_IMAGE

extractSonicImageDirectory(path) ==
    IF ~isSonicImagePath(path)
    THEN [val |-> EmptyStr, err |-> "NotASonicImagePath"]
    ELSE IF "directory" \notin DOMAIN path[3].Key
    THEN [val |-> EmptyStr, err |-> "DirectoryNotSpecified"]
    ELSE [val |-> path[3].Key["directory"], err |-> "nil"]

isSonicImageFilesPath(path) ==
    /\ isSonicImagePath(path)
    /\ Len(path) >= 4
    /\ path[4].Name = FILES

getSonicImageFileField(path) ==
    IF ~isSonicImageFilesPath(path)
    THEN [val |-> EmptyStr, err |-> "NotASonicImageFilesPath"]
    ELSE IF Len(path) = 4 THEN [val |-> LIST, err |-> "nil"]
    ELSE IF Len(path) = 5
    THEN (IF path[5].Name = COUNT
          THEN [val |-> COUNT, err |-> "nil"]
          ELSE [val |-> path[5].Name, err |-> "nil"])
    ELSE [val |-> EmptyStr, err |-> "InvalidStructure"]


(***************************************************************************)
(* Host filesystem: fs.kind maps the normalized absolute path of every     *)
(* existing entry to "dir", "file" or "denied" (stat fails with an error   *)
(* other than not-exist); fs.unreadable holds the directories whose        *)
(* ReadDir fails, fs.noInfo the entries whose DirEntry.Info fails.         *)
(* fs.sep is os.PathSeparator of the host the server is built for.  Paths  *)
(* are kept with '/' inside the model whatever the host is (on a host with *)
(* another separator every path function works the same way with that     *)
(* separator in the place of '/'); HostPath gives a path as the host's     *)
(* path functions return it.                                               *)
(***************************************************************************)
CharOrder == <<"-", ".", "/", "a", "b", "c", "d", "e", "f", "g", "h", "i",
               "j", "k", "l", "m", "n", "o", "p", "q", "r", "s", "t", "u",
               "v", "w", "x", "y", "z">>
CharCode(c) == CHOOSE i \in 1..Len(CharOrder) : CharOrder[i] = c

\* s < t in the byte order os.ReadDir sorts file names by
RECURSIVE LexLess(_, _)
LexLess(s, t) ==
    IF t = <<>> THEN FALSE
    ELSE IF s = <<>> THEN TRUE
    ELSE IF s[1] = t[1] THEN LexLess(Tail(s), Tail(t))
    ELSE CharCode(s[1]) < CharCode(t[1])

RECURSIVE SortNames(_)
SortNames(names) ==
    IF names = {} THEN <<>>
    ELSE LET m == CHOOSE x \in names : \A y \in names \ {x} : LexLess(x, y)
         IN  <<m>> \o SortNames(names \ {m})

NonEmptySegs(s) == SelectSeq(Segments(s), LAMBDA e : e # <<>>)

\* the working directory of the server process
Cwd == <<Slash>>

\* the entry a path string names, as a normalized absolute path
Abs(p) == Clean(IF IsAbsolute(p) THEN p ELSE Cwd \o <<Slash>> \o p)

KindOfEntry(a) == IF a \in DOMAIN fs.kind THEN fs.kind[a] ELSE "none"

Kind(p) == IF p = EmptyStr THEN "none" ELSE KindOfEntry(Abs(p))

StatErr(k) ==
    CASE k = "none" -> "ENOENT"
      [] k = "denied" -> "EACCES"
      [] OTHER -> "nil"

\* os.Stat(p): nil, a not-exist error, or another error
Stat(p) == StatErr(Kind(p))

LastSeg(p, segs) ==
    IF Len(segs) = 0 THEN (IF p = EmptyStr THEN <<Dot>> ELSE <<Slash>>)
    ELSE segs[Len(segs)]

\* filepath.Base
Base(p) == LastSeg(p, NonEmptySegs(p))

AllButLast(segs) == <<Slash>> \o JoinSegs(SubSeq(segs, 1, Len(segs) - 1))

\* the directory holding the entry q (q a normalized absolute path)
ParentOf(q) == AllButLast(NonEmptySegs(q))

EntriesOf(a) ==
    IF a \in fs.unreadable THEN <<>>
    ELSE SortNames({Base(q) : q \in {e \in DOMAIN fs.kind :
                        e # <<Slash>> /\ ParentOf(e) = a}})

\* os.ReadDir(dir): the names of the entries of dir, sorted; none on error
ReadDir(dir) == EntriesOf(Abs(dir))

RECURSIVE CommonLen(_, _)
CommonLen(a, b) ==
    IF a = <<>> \/ b = <<>> THEN 0
    ELSE IF a[1] = b[1] THEN 1 + CommonLen(Tail(a), Tail(b))
    ELSE 0

RelFrom(bs, ts, k) ==
    IF k < Len(bs) /\ bs[k + 1] = DotDot
    THEN [val |-> EmptyStr, err |-> "RelError"]
    ELSE [val |-> JoinSegs([i \in 1..(Len(bs) - k) |-> DotDot]
                               \o SubSeq(ts, k + 1, Len(ts))),
          err |-> "nil"]

RelSegs(bs, ts) == RelFrom(bs, ts, CommonLen(bs, ts))

RelClean(base, targ) ==
    IF targ = base THEN [val |-> <<Dot>>, err |-> "nil"]
    ELSE IF IsAbsolute(base) # IsAbsolute(targ)
    THEN [val |-> EmptyStr, err |-> "RelError"]
    ELSE RelSegs(IF base = <<Dot>> THEN <<>> ELSE NonEmptySegs(base),
                 NonEmptySegs(targ))

Backslash == "\\"

\* a path as the functions of path/filepath return it: with the host's
\* separator
HostPath(p) == [i \in 1..Len(p) |-> IF p[i] = Slash THEN fs.sep ELSE p[i]]

RelHost(r) == [val |-> HostPath(r.val), err |-> r.err]

\* filepath.Rel(basepath, targpath)
Rel(basepath, targpath) == RelHost(RelClean(Clean(basepath), Clean(targpath)))

FileInfo(relPath, kind) ==
    [Name |-> relPath, IsDirectory |-> kind = "dir"]

\* relPath, err := filepath.Rel(...); on error relPath = filepath.Base(path)
firmwareRecord(rel, path, kind) ==
    IF rel.err # "nil"
    THEN <<FileInfo(HostPath(Base(path)), kind)>>
    ELSE <<FileInfo(rel.val, kind)>>

\* relPath, err := filepath.Rel(...); on error the entry is left out
sonicImageRecord(rel, path, kind) ==
    IF rel.err # "nil" THEN <<>> ELSE <<FileInfo(rel.val, kind)>>

\* mutant: the walked root is not skipped
VisitWithRoot(which, resolvedPath, path, entry, kind) ==
    IF entry \in fs.noInfo THEN <<>>
    ELSE IF which = "firmware"
    THEN firmwareRecord(Rel(resolvedPath, path), path, kind)
    ELSE sonicImageRecord(Rel(resolvedPath, path), path, kind)

\* the WalkDir callback on one visited path (err = nil): the records it
\* appends
Visit(which, resolvedPath, path, entry, kind) ==
    IF path = resolvedPath THEN <<>>                     \* skip the root itself
    ELSE IF entry \in fs.noInfo THEN <<>>                \* d.Info() failed
    ELSE IF which = "firmware"
    THEN firmwareRecord(Rel(resolvedPath, path), path, kind)
    ELSE sonicImageRecord(Rel(resolvedPath, path), path, kind)

\* filepath.WalkDir's walkDir: the callback on path, then, for a directory,
\* on every entry in ReadDir order; the callback always returns nil, so
\* nothing is skipped and no error stops the walk
RECURSIVE walkDir(_, _, _)
RECURSIVE walkEntries(_, _, _, _)
RECURSIVE walkVisited(_, _, _, _, _)
walkDir(which, resolvedPath, path) ==
    walkVisited(which, resolvedPath, path, Abs(path), Kind(path))

\* mutant: the walk does not go into the directories it meets below the root
walkVisitedFlat(which, resolvedPath, path, entry, kind) ==
    Visit(which, resolvedPath, path, entry, kind)
        \o (IF kind = "dir" /\ path = resolvedPath
            THEN walkEntries(which, resolvedPath, path, EntriesOf(entry))
            ELSE <<>>)

walkVisited(which, resolvedPath, path, entry, kind) ==
    Visit(which, resolvedPath, path, entry, kind)
        \o (IF kind = "dir"
            THEN walkEntries(which, resolvedPath, path, EntriesOf(entry))
            ELSE <<>>)
walkEntries(which, resolvedPath, path, names) ==
    IF names = <<>> THEN <<>>
    ELSE walkDir(which, resolvedPath, Join(path, names[1]))
             \o walkEntries(which, resolvedPath, path, Tail(names))

\* filepath.WalkDir(root, fn): a failed Lstat of the root is handed to the
\* callback, which logs it and returns nil
WalkDir(which, root) ==
    IF Kind(root) \notin {"dir", "file"} THEN <<>> ELSE walkDir(which, root, root)

StatOp(p) == [op |-> "stat", path |-> p]
WalkOp(p) == [op |-> "walk", path |-> p]
StatfsOp(p) == [op |-> "statfs", path |-> p]

\* mutant: the error messages name the resolved path
ListAfterStatNamesResolved(which, directory, resolvedPath, err) ==
    IF err = "ENOENT"
    THEN [files |-> <<>>, err |-> "DirNotExist", about |-> resolvedPath,
          log |-> <<StatOp(resolvedPath)>>]
    ELSE IF err # "nil"
    THEN [files |-> <<>>, err |-> "AccessFailed", about |-> resolvedPath,
          log |-> <<StatOp(resolvedPath)>>]
    ELSE [files |-> WalkDir(which, resolvedPath), err |-> "nil", about |-> NoStr,
          log |-> <<StatOp(resolvedPath), WalkOp(resolvedPath)>>]

\* mutant: an error on an entry of the tree ends the walk, and the request,
\* with an error
ListAfterStatStrict(which, directory, resolvedPath, err) ==
    IF err = "ENOENT"
    THEN [files |-> <<>>, err |-> "DirNotExist", about |-> directory,
          log |-> <<StatOp(resolvedPath)>>]
    ELSE IF err # "nil"
    THEN [files |-> <<>>, err |-> "AccessFailed", about |-> directory,
          log |-> <<StatOp(resolvedPath)>>]
    ELSE IF \E e \in fs.unreadable \cup fs.noInfo : HasPrefix(e, Abs(resolvedPath))
    THEN [files |-> <<>>, err |-> "WalkFailed", about |-> directory,
          log |-> <<StatOp(resolvedPath), WalkOp(resolvedPath)>>]
    ELSE [files |-> WalkDir(which, resolvedPath), err |-> "nil", about |-> NoStr,
          log |-> <<StatOp(resolvedPath), WalkOp(resolvedPath)>>]

\* mutant: a path that is not a directory is refused after the stat
ListAfterStatDirectoriesOnly(which, directory, resolvedPath, err) ==
    IF err = "ENOENT"
    THEN [files |-> <<>>, err |-> "DirNotExist", about |-> directory,
          log |-> <<StatOp(resolvedPath)>>]
    ELSE IF err # "nil" \/ Kind(resolvedPath) # "dir"
    THEN [files |-> <<>>, err |-> "AccessFailed", about |-> directory,
          log |-> <<StatOp(resolvedPath)>>]
    ELSE [files |-> WalkDir(which, resolvedPath), err |-> "nil", about |-> NoStr,
          log |-> <<StatOp(resolvedPath), WalkOp(resolvedPath)>>]

\* err is the kind of the error returned and about the path its message
\* names ("directory does not exist: %s", directory)
ListAfterStat(which, directory, resolvedPath, err) ==
    IF err = "ENOENT"
    THEN [files |-> <<>>, err |-> "DirNotExist", about |-> directory,
          log |-> <<StatOp(resolvedPath)>>]
    ELSE IF err # "nil"
    THEN [files |-> <<>>, err |-> "AccessFailed", about |-> directory,
          log |-> <<StatOp(resolvedPath)>>]
    ELSE [files |-> WalkDir(which, resolvedPath), err |-> "nil", about |-> NoStr,
          log |-> <<StatOp(resolvedPath), WalkOp(resolvedPath)>>]

\* ListFirmwareFiles / ListSonicImageFiles on a resolved path
ListResolved(which, directory, resolvedPath) ==
    ListAfterStat(which, directory, resolvedPath, Stat(resolvedPath))

\* gNOI file server: (s *Server) ListFirmwareFiles(ctx, directory)
ListFirmwareFiles(directory) ==
    ListResolved("firmware", directory, gnoiResolveFilesystemPath(directory, rootFS))

\* internal/file: ListSonicImageFiles(directory, rootFS)
ListSonicImageFiles(directory, root) ==
    ListResolved("sonic-image", directory, resolveFilesystemPath(directory, root))

NoFile == [Name |-> NoStr, IsDirectory |-> FALSE]

\* mutant: only the last element of a record's name is compared
FindFileByBase(listing, filename) ==
    IF listing.err # "nil"
    THEN [file |-> NoFile, err |-> listing.err, about |-> listing.about,
          log |-> listing.log]
    ELSE IF \E i \in 1..Len(listing.files) : Base(listing.files[i].Name) = filename
    THEN [file |-> listing.files[CHOOSE i \in 1..Len(listing.files) :
                        Base(listing.files[i].Name) = filename],
          err |-> "nil", about |-> NoStr, log |-> listing.log]
    ELSE [file |-> NoFile, err |-> "FileNotFound", about |-> filename,
          log |-> listing.log]

\* the loop of Get...FileInfo: the first record with file.Name == filename
FindFile(listing, filename) ==
    IF listing.err # "nil"
    THEN [file |-> NoFile, err |-> listing.err, about |-> listing.about,
          log |-> listing.log]
    ELSE IF \E i \in 1..Len(listing.files) : listing.files[i].Name = filename
    THEN [file |-> listing.files[CHOOSE i \in 1..Len(listing.files) :
                        /\ listing.files[i].Name = filename
                        /\ \A j \in 1..(i - 1) : listing.files[j].Name # filename],
          err |-> "nil", about |-> NoStr, log |-> listing.log]
    ELSE [file |-> NoFile, err |-> "FileNotFound", about |-> filename,
          log |-> listing.log]

\* mutant: directories are not counted
CountFilesOnly(listing) ==
    IF listing.err # "nil"
    THEN [count |-> 0, err |-> listing.err, about |-> listing.about,
          log |-> listing.log]
    ELSE [count |-> Len(SelectSeq(listing.files, LAMBDA f : ~f.IsDirectory)),
          err |-> "nil", about |-> NoStr, log |-> listing.log]

CountFiles(listing) ==
    IF listing.err # "nil"
    THEN [count |-> 0, err |-> listing.err, about |-> listing.about,
          log |-> listing.log]
    ELSE [count |-> Len(listing.files), err |-> "nil", about |-> NoStr,
          log |-> listing.log]

GetFirmwareFileCount(directory) == CountFiles(ListFirmwareFiles(directory))
GetFirmwareFileInfo(directory, filename) == FindFile(ListFirmwareFiles(directory), filename)
GetSonicImageFileCount(directory, root) == CountFiles(ListSonicImageFiles(directory, root))
GetSonicImageFileInfo(directory, filename, root) ==
    FindFile(ListSonicImageFiles(directory, root), filename)

DiskSpaceOf(err) ==
    IF err = "nil"
    THEN [info |-> [TotalMB |-> 100, AvailableMB |-> 40], err |-> "nil"]
    ELSE [info |-> [TotalMB |-> 0, AvailableMB |-> 0], err |-> "StatfsFailed"]

\* internal/diskspace: GetDiskSpace(path), the storage-capacity provider
GetDiskSpace(path) == DiskSpaceOf(Stat(path))

(***************************************************************************)
(* gNMI Get handlers                                                       *)
(***************************************************************************)
NoValue == [shape |-> "none"]
NoResp == [code |-> "none", err |-> "none", about |-> NoStr, value |-> NoValue]

\* status.Errorf(code, "...: %v", err) around an error whose message names
\* the path about
FailureAbout(code, kind, about, log) ==
    [resp |-> [code |-> code, err |-> kind, about |-> about, value |-> NoValue],
     log |-> log]
Failure(code, kind, log) == FailureAbout(code, kind, NoStr, log)
Success(value, log) ==
    [resp |-> [code |-> "OK", err |-> "nil", about |-> NoStr, value |-> value],
     log |-> log]

\* switch field { case "count": ... case "list": ... default: ... }
fieldCase(field) ==
    IF field = COUNT THEN "count"
    ELSE IF field = LIST THEN "list"
    ELSE "default"

\* mutant: a file of the directory named like the field is answered with
\* its record, before the switch
firmwareFilesValueFileFirst(field, firmwareDir, c, l, f) ==
    IF f.err = "nil"
    THEN Success([shape |-> "file", directory |-> firmwareDir, file |-> f.file], f.log)
    ELSE IF fieldCase(field) = "count"
    THEN IF c.err # "nil" THEN FailureAbout("Internal", c.err, c.about, c.log)
         ELSE Success([shape |-> "count", count |-> c.count], c.log)
    ELSE IF fieldCase(field) = "list"
    THEN IF l.err # "nil" THEN FailureAbout("Internal", l.err, l.about, l.log)
         ELSE Success([shape |-> "list", directory |-> firmwareDir,
                       file_count |-> Len(l.files), files |-> l.files], l.log)
    ELSE FailureAbout("Internal", f.err, f.about, f.log)

\* mutant: the envelopes carry the resolved path of the directory
firmwareFilesValueResolved(field, firmwareDir, c, l, f) ==
    IF fieldCase(field) = "count"
    THEN IF c.err # "nil" THEN FailureAbout("Internal", c.err, c.about, c.log)
         ELSE Success([shape |-> "count", count |-> c.count], c.log)
    ELSE IF fieldCase(field) = "list"
    THEN IF l.err # "nil" THEN FailureAbout("Internal", l.err, l.about, l.log)
         ELSE Success([shape |-> "list",
                       directory |-> gnoiResolveFilesystemPath(firmwareDir, rootFS),
                       file_count |-> Len(l.files), files |-> l.files], l.log)
    ELSE IF f.err # "nil" THEN FailureAbout("Internal", f.err, f.about, f.log)
         ELSE Success([shape |-> "file",
                       directory |-> gnoiResolveFilesystemPath(firmwareDir, rootFS),
                       file |-> f.file], f.log)

\* the switch of handleFirmwareFilesRequest; each case starts by listing the
\* directory: c is the result of GetFirmwareFileCount,
\* l of ListFirmwareFiles, f of GetFirmwareFileInfo
firmwareFilesValue(field, firmwareDir, c, l, f) ==
    IF fieldCase(field) = "count"
    THEN IF c.err # "nil" THEN FailureAbout("Internal", c.err, c.about, c.log)
         ELSE Success([shape |-> "count", count |-> c.count], c.log)
    ELSE IF fieldCase(field) = "list"
    THEN IF l.err # "nil" THEN FailureAbout("Internal", l.err, l.about, l.log)
         ELSE Success([shape |-> "list", directory |-> firmwareDir,
                       file_count |-> Len(l.files), files |-> l.files], l.log)
    ELSE IF f.err # "nil" THEN FailureAbout("Internal", f.err, f.about, f.log)
         ELSE Success([shape |-> "file", directory |-> firmwareDir, file |-> f.file],
                      f.log)

\* mutant: a file that is not found is looked for a second time
firmwareFilesListedRetrying(field, firmwareDir, l) ==
    IF FindFile(l, field).err = "nil" \/ fieldCase(field) # "default"
    THEN firmwareFilesValue(field, firmwareDir, CountFiles(l), l, FindFile(l, field))
    ELSE FailureAbout("Internal", FindFile(l, field).err, FindFile(l, field).about,
                      l.log \o l.log)

firmwareFilesListed(field, firmwareDir, l) ==
    firmwareFilesValue(field, firmwareDir, CountFiles(l), l, FindFile(l, field))

firmwareFilesField(field, firmwareDir) ==
    IF field.err # "nil" THEN Failure("InvalidArgument", field.err, <<>>)
    ELSE firmwareFilesListed(field.val, firmwareDir, ListFirmwareFiles(firmwareDir))

\* (s *Server) handleFirmwareFilesRequest(path, firmwareDir)
handleFirmwareFilesRequest(path, firmwareDir) ==
    firmwareFilesField(getFirmwareFileField(path), firmwareDir)

firmwareDirExtracted(path, dir) ==
    IF dir.err # "nil" THEN Failure("InvalidArgument", dir.err, <<>>)
    ELSE IF isFirmwareFilesPath(path)
    THEN handleFirmwareFilesRequest(path, dir.val)
    ELSE Failure("NotFound", "UnsupportedFirmwareMetric", <<>>)

\* mutant: the directory is extracted and the files are listed before the
\* flag is looked at
handleFirmwarePathFlagLast(path) ==
    IF extractFirmwareDirectory(path).err = "nil" /\ ~EnableGNOIFile
    THEN [resp |-> Failure("FailedPrecondition", "GNOIFileDisabled", <<>>).resp,
          log |-> <<StatOp(extractFirmwareDirectory(path).val)>>]
    ELSE firmwareDirExtracted(path, extractFirmwareDirectory(path))

\* mutant: the path is validated before the flag is looked at
handleFirmwarePathShapeFirst(path) ==
    IF extractFirmwareDirectory(path).err # "nil"
    THEN Failure("InvalidArgument", extractFirmwareDirectory(path).err, <<>>)
    ELSE IF ~isFirmwareFilesPath(path)
    THEN Failure("NotFound", "UnsupportedFirmwareMetric", <<>>)
    ELSE IF ~EnableGNOIFile
    THEN Failure("FailedPrecondition", "GNOIFileDisabled", <<>>)
    ELSE handleFirmwareFilesRequest(path, extractFirmwareDirectory(path).val)

\* (s *Server) handleFirmwarePath(path)
handleFirmwarePath(path) ==
    IF ~EnableGNOIFile
    THEN Failure("FailedPrecondition", "GNOIFileDisabled", <<>>)
    ELSE firmwareDirExtracted(path, extractFirmwareDirectory(path))

\* the switch of handleSonicImageFilesRequest; each case starts by listing the
\* directory: c is the result of GetSonicImageFileCount,
\* l of ListSonicImageFiles, f of GetSonicImageFileInfo
sonicImageFilesValue(field, sonicImageDir, c, l, f) ==
    IF fieldCase(field) = "count"
    THEN IF c.err # "nil" THEN FailureAbout("Internal", c.err, c.about, c.log)
         ELSE Success([shape |-> "count", count |-> c.count], c.log)
    ELSE IF fieldCase(field) = "list"
    THEN IF l.err # "nil" THEN FailureAbout("Internal", l.err, l.about, l.log)
         ELSE Success([shape |-> "list", directory |-> sonicImageDir,
                       file_count |-> Len(l.files), files |-> l.files], l.log)
    ELSE IF f.err # "nil" THEN FailureAbout("Internal", f.err, f.about, f.log)
         ELSE Success([shape |-> "file", directory |-> sonicImageDir, file |-> f.file],
                      f.log)

sonicImageFilesListed(field, sonicImageDir, l) ==
    sonicImageFilesValue(field, sonicImageDir, CountFiles(l), l, FindFile(l, field))

sonicImageFilesField(field, sonicImageDir) ==
    IF field.err # "nil" THEN Failure("InvalidArgument", field.err, <<>>)
    ELSE sonicImageFilesListed(field.val, sonicImageDir, ListSonicImageFiles(sonicImageDir, rootFS))

\* (s *Server) handleSonicImageFilesRequest(path, sonicImageDir)
handleSonicImageFilesRequest(path, sonicImageDir) ==
    sonicImageFilesField(getSonicImageFileField(path), sonicImageDir)

sonicImageDirExtracted(path, dir) ==
    IF dir.err # "nil" THEN Failure("InvalidArgument", dir.err, <<>>)
    ELSE IF isSonicImageFilesPath(path)
    THEN handleSonicImageFilesRequest(path, dir.val)
    ELSE Failure("NotFound", "UnsupportedSonicImageMetric", <<>>)

\* mutant: the sonic-image handler is behind the firmware flag too
handleSonicImagePathFlagged(path) ==
    IF ~EnableGNOIFile
    THEN Failure("FailedPrecondition", "GNOIFileDisabled", <<>>)
    ELSE sonicImageDirExtracted(path, extractSonicImageDirectory(path))

\* (s *Server) handleSonicImagePath(path)
handleSonicImagePath(path) ==
    sonicImageDirExtracted(path, extractSonicImageDirectory(path))

diskSpaceValue(p, resolvedPath, d) ==
    IF d.err # "nil"
    THEN Failure("Internal", d.err, <<StatfsOp(resolvedPath)>>)
    ELSE Success([shape |-> "diskspace", path |-> p,
                  total_mb |-> d.info.TotalMB,
                  available_mb |-> d.info.AvailableMB],
                 <<StatfsOp(resolvedPath)>>)

diskSpaceResolved(p, resolvedPath) ==
    diskSpaceValue(p, resolvedPath, GetDiskSpace(resolvedPath))

diskSpaceValidated(p, err) ==
    IF err # "nil" THEN Failure("InvalidArgument", err, <<>>)
    ELSE diskSpaceResolved(p, gnmiResolveFilesystemPath(p, rootFS))

\* (s *Server) handleDiskSpaceRequest(path, fsPath)
handleDiskSpaceRequest(path, p) ==
    diskSpaceValidated(p, validateDiskSpacePath(path))

filesystemPathExtracted(path, p) ==
    IF p.err # "nil" THEN Failure("InvalidArgument", p.err, <<>>)
    ELSE IF isDiskSpacePath(path)
    THEN handleDiskSpaceRequest(path, p.val)
    ELSE Failure("NotFound", "UnsupportedFilesystemMetric", <<>>)

\* (s *Server) handleFilesystemPath(path)
handleFilesystemPath(path) ==
    filesystemPathExtracted(path, extractFilesystemPath(path))

(***************************************************************************)
(* Server: configuration fixed at startup, one request handled at a time   *)
(* by each handler call; fsLog records the filesystem operations of the    *)
(* request in hand                                                         *)
(***************************************************************************)
D_EMPTY == EmptyStr
D_D == <<Slash, "d">>
D_E == <<Slash, "e">>
D_RD == <<Slash, "r", Slash, "d">>
D_F == <<Slash, "f">>
A_BIN == <<"a", ".", "b", "i", "n">>
B_FW == <<"b", ".", "f", "w">>
SUB == <<"s", "u", "b">>
C_BIN == <<"c", ".", "b", "i", "n">>
R_R == <<Slash, "r">>

ServerRoots == {EmptyStr, <<Slash>>, R_R}

\* /d holds b, count and list; /r/d holds a and s/c; /f holds a.bin, b.fw
\* and sub/c.bin
BaseTree ==
    (<<Slash>> :> "dir") @@ (D_D :> "dir") @@ (R_R :> "dir") @@ (D_RD :> "dir")
    @@ (D_D \o <<Slash, "b">> :> "file")
    @@ (D_D \o <<Slash>> \o COUNT :> "file")
    @@ (D_D \o <<Slash>> \o LIST :> "file")
    @@ (D_RD \o <<Slash, "a">> :> "file")
    @@ (D_RD \o <<Slash, "s">> :> "dir")
    @@ (D_RD \o <<Slash, "s", Slash, "c">> :> "file")
    @@ (D_F :> "dir")
    @@ (D_F \o <<Slash>> \o A_BIN :> "file")
    @@ (D_F \o <<Slash>> \o B_FW :> "file")
    @@ (D_F \o <<Slash>> \o SUB :> "dir")
    @@ (D_F \o <<Slash>> \o SUB \o <<Slash>> \o C_BIN :> "file")

EmptyFs == [kind |-> (<<Slash>> :> "dir"), unreadable |-> {}, noInfo |-> {},
            sep |-> Slash]

FsStates ==
    { [kind |-> BaseTree, unreadable |-> {}, noInfo |-> {}, sep |-> Slash],
      \* the same tree on a host whose separator is the backslash
      [kind |-> BaseTree, unreadable |-> {}, noInfo |-> {}, sep |-> Backslash],
      \* /d is a regular file, /r/d cannot be stat-ed
      [kind |-> (<<Slash>> :> "dir") @@ (D_D :> "file") @@ (R_R :> "dir")
                    @@ (D_RD :> "denied"),
       unreadable |-> {}, noInfo |-> {}, sep |-> Slash],
      \* per-entry errors: /r/d/s cannot be read, /d/b has no info
      [kind |-> BaseTree, unreadable |-> {D_RD \o <<Slash, "s">>},
       noInfo |-> {D_D \o <<Slash, "b">>}, sep |-> Slash] }

DirValues == {D_EMPTY, D_D, D_E, D_RD, D_F}

Elem3Values ==
    {KeyedElem(n, "directory", d) : n \in {FIRMWARE, SONIC_IMAGE, FILESYSTEM},
                                    d \in DirValues}
    \cup {KeyedElem(n, "path", D_D) : n \in {FIRMWARE, SONIC_IMAGE, FILESYSTEM}}
    \cup {Elem(n) : n \in {FIRMWARE, SONIC_IMAGE, FILESYSTEM}}

Elem4Names == {FILES, DISK_SPACE, OTHER_NAME}
Elem5Names ==
    {COUNT, LIST, EmptyStr, <<"a">>, <<"b">>, <<"s", Slash, "c">>, TOTAL_MB,
     AVAILABLE_MB, A_BIN, SUB \o <<Slash>> \o C_BIN}

Padding(n) == [i \in 1..n |-> Elem(OTHER_NAME)]

Tails ==
    {<<>>}
    \cup {<<Elem(e4)>> : e4 \in Elem4Names}
    \cup {<<Elem(e4), Elem(e5)>> : e4 \in Elem4Names, e5 \in Elem5Names}
    \cup {<<Elem(e4), Elem(COUNT)>> \o Padding(n) :
              e4 \in Elem4Names, n \in 1..(MaxElems - 5)}

Paths ==
    {<<Elem(SONIC), Elem(SYSTEM), e3>> \o t : e3 \in Elem3Values, t \in Tails}
    \cup {<<>>, <<Elem(SONIC)>>, <<Elem(SONIC), Elem(SYSTEM)>>,
          <<Elem(OTHER_NAME), Elem(SYSTEM), KeyedElem(FIRMWARE, "directory", D_D),
            Elem(FILES)>>,
          <<Elem(SONIC), Elem(OTHER_NAME), KeyedElem(SONIC_IMAGE, "directory", D_D),
            Elem(FILES)>>,
          <<Elem(SONIC), Elem(SYSTEM), KeyedElem(OTHER_NAME, "directory", D_D),
            Elem(FILES)>>}

NoReq == [handler |-> "none", path |-> <<>>]

IdleResolver ==
    /\ fsPath = NoStr
    /\ impl = "none"
    /\ resolved = NoStr
    /\ reresolved = NoStr

Init ==
    /\ rootFS \in ServerRoots
    /\ EnableGNOIFile \in BOOLEAN
    /\ fs \in FsStates
    /\ pc = "idle"
    /\ req = NoReq
    /\ resp = NoResp
    /\ fsLog = <<>>
    /\ inflight = <<>>
    /\ IdleImage
    /\ IdleResolver
    /\ IdleClient

Handle(handler, path, out) ==
    /\ req' = [handler |-> handler, path |-> path]
    /\ resp' = out.resp
    /\ fsLog' = out.log
    /\ pc' = "done"
    /\ UNCHANGED <<imageName, isSonicImage, inflight, rootFS, EnableGNOIFile, fs, fsPath, impl, resolved, reresolved,
                   call, reply, getCalls, result>>

HandleFirmwarePath(path) ==
    /\ pc = "idle"
    /\ Handle("firmware", path, handleFirmwarePath(path))

HandleSonicImagePath(path) ==
    /\ pc = "idle"
    /\ Handle("sonic-image", path, handleSonicImagePath(path))

HandleFilesystemPath(path) ==
    /\ pc = "idle"
    /\ Handle("filesystem", path, handleFilesystemPath(path))

\* the update (or the status error) goes back to the caller; the server is
\* ready for the next request
Return ==
    /\ pc = "done"
    /\ pc' = "idle"
    /\ req' = NoReq
    /\ resp' = NoResp
    /\ fsLog' = <<>>
    /\ UNCHANGED <<imageName, isSonicImage, inflight, rootFS, EnableGNOIFile, fs, fsPath, impl, resolved, reresolved,
                   call, reply, getCalls, result>>

Next ==
    \/ \E path \in Paths : HandleFirmwarePath(path)
    \/ \E path \in Paths : HandleSonicImagePath(path)
    \/ \E path \in Paths : HandleFilesystemPath(path)
    \/ Return

Spec == Init /\ [][Next]_vars

(***************************************************************************)
(* Server, concurrent: the gRPC server runs every Get in a goroutine of    *)
(* its own; a handler's steps (classification, stat of the resolved        *)
(* directory, walk) interleave with the steps of the other requests.       *)
(* rootFS, EnableGNOIFile and the filesystem are read at the step that     *)
(* uses them; directory, field, resolved path and result are locals of     *)
(* the goroutine                                                           *)
(***************************************************************************)
\* number of requests handled at the same time
MaxCalls == 2

Calls == 1..MaxCalls

FilesQuery(resource, dir, tail) ==
    <<Elem(SONIC), Elem(SYSTEM), KeyedElem(resource, "directory", dir), Elem(FILES)>>
        \o tail

ConcurrentRequests ==
    { [handler |-> "firmware", path |-> FilesQuery(FIRMWARE, D_D, <<>>)],
      [handler |-> "firmware", path |-> FilesQuery(FIRMWARE, D_F, <<Elem(COUNT)>>)],
      [handler |-> "firmware",
       path |-> <<Elem(SONIC), Elem(SYSTEM), Elem(FIRMWARE), Elem(FILES)>>],
      [handler |-> "sonic-image", path |-> FilesQuery(SONIC_IMAGE, D_RD, <<>>)],
      [handler |-> "sonic-image",
       path |-> FilesQuery(SONIC_IMAGE, D_F, <<Elem(A_BIN)>>)],
      [handler |-> "filesystem",
       path |-> <<Elem(SONIC), Elem(SYSTEM), KeyedElem(FILESYSTEM, "path", D_D),
                  Elem(DISK_SPACE)>>] }

NoFlight ==
    [at |-> "idle", handler |-> "none", path |-> <<>>, dir |-> NoStr,
     field |-> NoStr, resolvedPath |-> NoStr, resp |-> NoResp, log |-> <<>>]

InitConcurrent ==
    /\ rootFS \in {EmptyStr, R_R}
    /\ EnableGNOIFile \in BOOLEAN
    /\ fs \in {f \in FsStates : f.sep = Slash /\ f.unreadable = {}}
    /\ pc = "serving"
    /\ req = NoReq
    /\ resp = NoResp
    /\ fsLog = <<>>
    /\ inflight = [i \in Calls |-> NoFlight]
    /\ IdleImage
    /\ IdleResolver
    /\ IdleClient

\* goroutine i moves on to f; nothing else changes
Goroutine(i, f) ==
    /\ inflight' = [inflight EXCEPT ![i] = f]
    /\ UNCHANGED <<imageName, isSonicImage, rootFS, EnableGNOIFile, fs, pc, fsPath,
                   impl, resolved, reresolved, req, resp, fsLog, call, reply, getCalls, result>>

Finished(f, out) == [f EXCEPT !.at = "done", !.resp = out.resp, !.log = out.log]

\* Get hands the path to the handler of its kind
Accept(i, r) ==
    /\ inflight[i].at = "idle"
    /\ Goroutine(i, [NoFlight EXCEPT !.at = "accepted", !.handler = r.handler,
                                     !.path = r.path])

\* handle...Path down to the call of the listing: the flag, the directory,
\* the sub-resource and the field, in this order
classifyListing(f, enabled, dir, isFiles, field, unsupported) ==
    IF ~enabled THEN Finished(f, Failure("FailedPrecondition", "GNOIFileDisabled", <<>>))
    ELSE IF dir.err # "nil" THEN Finished(f, Failure("InvalidArgument", dir.err, <<>>))
    ELSE IF ~isFiles THEN Finished(f, Failure("NotFound", unsupported, <<>>))
    ELSE IF field.err # "nil"
    THEN Finished(f, Failure("InvalidArgument", field.err, <<>>))
    ELSE [f EXCEPT !.at = "classified", !.dir = dir.val, !.field = field.val]

\* handleFilesystemPath and handleDiskSpaceRequest down to the resolution
classifyDiskSpace(f, p, isDiskSpace, err) ==
    IF p.err # "nil" THEN Finished(f, Failure("InvalidArgument", p.err, <<>>))
    ELSE IF ~isDiskSpace
    THEN Finished(f, Failure("NotFound", "UnsupportedFilesystemMetric", <<>>))
    ELSE IF err # "nil" THEN Finished(f, Failure("InvalidArgument", err, <<>>))
    ELSE [f EXCEPT !.at = "classified", !.dir = p.val]

classified(f) ==
    CASE f.handler = "firmware" ->
             classifyListing(f, EnableGNOIFile, extractFirmwareDirectory(f.path),
                             isFirmwareFilesPath(f.path),
                             getFirmwareFileField(f.path), "UnsupportedFirmwareMetric")
      [] f.handler = "sonic-image" ->
             classifyListing(f, TRUE, extractSonicImageDirectory(f.path),
                             isSonicImageFilesPath(f.path),
                             getSonicImageFileField(f.path),
                             "UnsupportedSonicImageMetric")
      [] f.handler = "filesystem" ->
             classifyDiskSpace(f, extractFilesystemPath(f.path),
                               isDiskSpacePath(f.path), validateDiskSpacePath(f.path))

Classify(i) ==
    /\ inflight[i].at = "accepted"
    /\ Goroutine(i, classified(inflight[i]))

\* the response to listing l of the directory
listed(f, l) ==
    IF f.handler = "firmware"
    THEN Finished(f, firmwareFilesListed(f.field, f.dir, l))
    ELSE Finished(f, sonicImageFilesListed(f.field, f.dir, l))

\* os.Stat of the resolved directory: an error ends the request
statted(f, resolvedPath, err) ==
    IF err # "nil"
    THEN listed(f, ListAfterStat(f.handler, f.dir, resolvedPath, err))
    ELSE [f EXCEPT !.at = "statted", !.resolvedPath = resolvedPath,
                   !.log = <<StatOp(resolvedPath)>>]

resolvedDir(f, resolvedPath) ==
    IF f.handler = "filesystem"
    THEN Finished(f, diskSpaceResolved(f.dir, resolvedPath))
    ELSE statted(f, resolvedPath, Stat(resolvedPath))

\* the copy of the resolver the handler of f uses
resolverOf(f) ==
    CASE f.handler = "firmware" -> "gnoi"
      [] f.handler = "sonic-image" -> "internal"
      [] f.handler = "filesystem" -> "gnmi"

\* mutant: the server keeps the directory it resolved as its root
StatRootKeepingRoot(i) ==
    /\ inflight[i].at = "classified"
    /\ inflight' = [inflight EXCEPT ![i] =
           resolvedDir(inflight[i],
                       Resolve(resolverOf(inflight[i]), inflight[i].dir, rootFS))]
    /\ rootFS' = Resolve(resolverOf(inflight[i]), inflight[i].dir, rootFS)
    /\ UNCHANGED <<imageName, isSonicImage, EnableGNOIFile, fs, pc, fsPath, impl, resolved,
                   reresolved, req, resp, fsLog, call, reply, getCalls, result>>

\* resolveFilesystemPath with the server's rootFS, then os.Stat (or the
\* capacity query) on the result
StatRoot(i) ==
    /\ inflight[i].at = "classified"
    /\ Goroutine(i, resolvedDir(inflight[i],
                                Resolve(resolverOf(inflight[i]), inflight[i].dir,
                                        rootFS)))

\* filepath.WalkDir over the resolved directory and the response
Walk(i) ==
    /\ inflight[i].at = "statted"
    /\ Goroutine(i, listed(inflight[i],
                           ListAfterStat(inflight[i].handler, inflight[i].dir,
                                         inflight[i].resolvedPath, "nil")))

\* the update or the status error goes back to the caller
Reply(i) ==
    /\ inflight[i].at = "done"
    /\ Goroutine(i, NoFlight)

NextConcurrent ==
    \/ \E i \in Calls, r \in ConcurrentRequests : Accept(i, r)
    \/ \E i \in Calls : Classify(i)
    \/ \E i \in Calls : StatRoot(i)
    \/ \E i \in Calls : Walk(i)
    \/ \E i \in Calls : Reply(i)

SpecConcurrent == InitConcurrent /\ [][NextConcurrent]_vars


(***************************************************************************)
(* Client convenience methods: each checks its arguments, builds a path,   *)
(* issues one Get and parses the answer.  The answer of the Get RPC is     *)
(* the environment's choice.                                               *)
(***************************************************************************)
Replies == {"rpc_error", "no_data", "not_json", "bad_json", "ok"}

\* what the method makes of the Get response
ParseReply(r) ==
    CASE r = "rpc_error" -> "GetFailed"
      [] r = "no_data" -> "NoData"
      [] r = "not_json" -> "ExpectedJSON"
      [] r = "bad_json" -> "ParseFailed"
      [] OTHER -> "nil"

Rejected(kind) == [result |-> [err |-> kind], gets |-> <<>>, reply |-> "none"]
Requested(path, r) == [result |-> [err |-> ParseReply(r)], gets |-> <<path>>, reply |-> r]

FilesPath(resource, directory) ==
    <<Elem(SONIC), Elem(SYSTEM), KeyedElem(resource, "directory", directory),
      Elem(FILES)>>

\* (c *Client) GetFirmwareFiles(ctx, directory)
Client_GetFirmwareFiles(directory, filename, r) ==
    IF directory = EmptyStr THEN Rejected("DirectoryRequired")
    ELSE Requested(FilesPath(FIRMWARE, directory), r)

\* (c *Client) GetFirmwareFileCount(ctx, directory)
Client_GetFirmwareFileCount(directory, filename, r) ==
    IF directory = EmptyStr THEN Rejected("DirectoryRequired")
    ELSE Requested(FilesPath(FIRMWARE, directory) \o <<Elem(COUNT)>>, r)

\* mutant: the filename is not checked before the request is built
Client_GetFirmwareFileInfoUnchecked(directory, filename, r) ==
    IF directory = EmptyStr THEN Rejected("DirectoryRequired")
    ELSE Requested(FilesPath(FIRMWARE, directory) \o <<Elem(filename)>>, r)

\* (c *Client) GetFirmwareFileInfo(ctx, directory, filename)
Client_GetFirmwareFileInfo(directory, filename, r) ==
    IF directory = EmptyStr THEN Rejected("DirectoryRequired")
    ELSE IF filename = EmptyStr THEN Rejected("FilenameRequired")
    ELSE Requested(FilesPath(FIRMWARE, directory) \o <<Elem(filename)>>, r)

\* (c *Client) GetSonicImageFiles(ctx, directory)
Client_GetSonicImageFiles(directory, filename, r) ==
    IF directory = EmptyStr THEN Rejected("DirectoryRequired")
    ELSE Requested(FilesPath(SONIC_IMAGE, directory), r)

\* (c *Client) GetSonicImageFileCount(ctx, directory)
Client_GetSonicImageFileCount(directory, filename, r) ==
    IF directory = EmptyStr THEN Rejected("DirectoryRequired")
    ELSE Requested(FilesPath(SONIC_IMAGE, directory) \o <<Elem(COUNT)>>, r)

\* (c *Client) GetSonicImageFileInfo(ctx, directory, filename)
Client_GetSonicImageFileInfo(directory, filename, r) ==
    IF directory = EmptyStr THEN Rejected("DirectoryRequired")
    ELSE IF filename = EmptyStr THEN Rejected("FilenameRequired")
    ELSE Requested(FilesPath(SONIC_IMAGE, directory) \o <<Elem(filename)>>, r)

ClientDirs == DirValues
ClientFiles == {EmptyStr, <<"a">>, COUNT, LIST, <<"s", Slash, "c">>}
InfoMethods == {"GetFirmwareFileInfo", "GetSonicImageFileInfo"}

NoCall == [method |-> "none", directory |-> EmptyStr, filename |-> EmptyStr]
NoResult == [err |-> "none"]

InitClient ==
    /\ pc = "idle"
    /\ call = NoCall
    /\ reply = "none"
    /\ getCalls = <<>>
    /\ result = NoResult
    /\ rootFS = EmptyStr
    /\ IdleServer
    /\ IdleResolver
    /\ IdleImage

ClientCall(method, directory, filename, out) ==
    /\ call' = [method |-> method, directory |-> directory, filename |-> filename]
    /\ reply' = out.reply
    /\ getCalls' = out.gets
    /\ result' = out.result
    /\ pc' = "returned"
    /\ UNCHANGED <<imageName, isSonicImage, inflight, rootFS, EnableGNOIFile, fs, fsPath, impl, resolved, reresolved,
                   req, resp, fsLog>>

CallGetFirmwareFiles(d, r) ==
    /\ pc = "idle"
    /\ ClientCall("GetFirmwareFiles", d, EmptyStr, Client_GetFirmwareFiles(d, EmptyStr, r))

CallGetFirmwareFileCount(d, r) ==
    /\ pc = "idle"
    /\ ClientCall("GetFirmwareFileCount", d, EmptyStr,
               Client_GetFirmwareFileCount(d, EmptyStr, r))

CallGetFirmwareFileInfo(d, f, r) ==
    /\ pc = "idle"
    /\ ClientCall("GetFirmwareFileInfo", d, f, Client_GetFirmwareFileInfo(d, f, r))

CallGetSonicImageFiles(d, r) ==
    /\ pc = "idle"
    /\ ClientCall("GetSonicImageFiles", d, EmptyStr, Client_GetSonicImageFiles(d, EmptyStr, r))

CallGetSonicImageFileCount(d, r) ==
    /\ pc = "idle"
    /\ ClientCall("GetSonicImageFileCount", d, EmptyStr,
               Client_GetSonicImageFileCount(d, EmptyStr, r))

CallGetSonicImageFileInfo(d, f, r) ==
    /\ pc = "idle"
    /\ ClientCall("GetSonicImageFileInfo", d, f, Client_GetSonicImageFileInfo(d, f, r))

\* the method has returned to its caller; the client is ready for the next call
ClientReturn ==
    /\ pc = "returned"
    /\ pc' = "idle"
    /\ call' = NoCall
    /\ reply' = "none"
    /\ getCalls' = <<>>
    /\ result' = NoResult
    /\ UNCHANGED <<imageName, isSonicImage, inflight, rootFS, EnableGNOIFile, fs, fsPath, impl, resolved, reresolved,
                   req, resp, fsLog>>

NextClient ==
    \/ \E d \in ClientDirs, r \in Replies : CallGetFirmwareFiles(d, r)
    \/ \E d \in ClientDirs, r \in Replies : CallGetFirmwareFileCount(d, r)
    \/ \E d \in ClientDirs, f \in ClientFiles, r \in Replies :
           CallGetFirmwareFileInfo(d, f, r)
    \/ \E d \in ClientDirs, r \in Replies : CallGetSonicImageFiles(d, r)
    \/ \E d \in ClientDirs, r \in Replies : CallGetSonicImageFileCount(d, r)
    \/ \E d \in ClientDirs, f \in ClientFiles, r \in Replies :
           CallGetSonicImageFileInfo(d, f, r)
    \/ ClientReturn

SpecClient == InitClient /\ [][NextClient]_vars

(***************************************************************************)
(* Classifier study: each function of path_utils called with a *gnmi.Path  *)
(* that may be nil.  req.path is the pointer, resp the outcome of the call *)
(***************************************************************************)
NilPath == [nil |-> TRUE, Elem |-> <<>>]
PathTo(elems) == [nil |-> FALSE, Elem |-> elems]

\* one element as pathToString writes it: name[key=value]
partOf(elem) ==
    IF DOMAIN elem.Key = {} THEN elem.Name
    ELSE elem.Name \o <<"[", CHOOSE k \in DOMAIN elem.Key : TRUE, "=">>
             \o elem.Key[CHOOSE k \in DOMAIN elem.Key : TRUE] \o <<"]">>

RECURSIVE joinParts(_, _)
joinParts(elems, i) ==
    IF i > Len(elems) THEN EmptyStr
    ELSE (IF i > 1 THEN <<Slash>> ELSE EmptyStr) \o partOf(elems[i])
             \o joinParts(elems, i + 1)

\* pathToString(path): "/" for a nil path
pathToString(p) ==
    IF p.nil THEN <<Slash>> ELSE <<Slash>> \o joinParts(p.Elem, 1)

Classifiers ==
    {"pathToString", "isFilesystemPath", "extractFilesystemPath", "isDiskSpacePath",
     "getDiskSpaceField", "validateDiskSpacePath", "isFirmwarePath",
     "extractFirmwareDirectory", "isFirmwareFilesPath", "getFirmwareFileField",
     "isSonicImagePath", "extractSonicImageDirectory", "isSonicImageFilesPath",
     "getSonicImageFileField"}

Returned(val, err) == [panic |-> FALSE, val |-> val, err |-> err]
Panicked == [panic |-> TRUE, val |-> EmptyStr, err |-> "nil pointer dereference"]

\* classifier c on the elements of a path that is not nil
classifierOn(c, elems) ==
    CASE c = "isFilesystemPath" -> Returned(isFilesystemPath(elems), "nil")
      [] c = "isDiskSpacePath" -> Returned(isDiskSpacePath(elems), "nil")
      [] c = "isFirmwarePath" -> Returned(isFirmwarePath(elems), "nil")
      [] c = "isFirmwareFilesPath" -> Returned(isFirmwareFilesPath(elems), "nil")
      [] c = "isSonicImagePath" -> Returned(isSonicImagePath(elems), "nil")
      [] c = "isSonicImageFilesPath" -> Returned(isSonicImageFilesPath(elems), "nil")
      [] c = "validateDiskSpacePath" -> Returned(EmptyStr, validateDiskSpacePath(elems))
      [] c = "extractFilesystemPath" ->
             Returned(extractFilesystemPath(elems).val, extractFilesystemPath(elems).err)
      [] c = "getDiskSpaceField" ->
             Returned(getDiskSpaceField(elems).val, getDiskSpaceField(elems).err)
      [] c = "extractFirmwareDirectory" ->
             Returned(extractFirmwareDirectory(elems).val,
                      extractFirmwareDirectory(elems).err)
      [] c = "getFirmwareFileField" ->
             Returned(getFirmwareFileField(elems).val, getFirmwareFileField(elems).err)
      [] c = "extractSonicImageDirectory" ->
             Returned(extractSonicImageDirectory(elems).val,
                      extractSonicImageDirectory(elems).err)
      [] c = "getSonicImageFileField" ->
             Returned(getSonicImageFileField(elems).val,
                      getSonicImageFileField(elems).err)

\* every classifier and extractor starts, itself or through the predicate
\* it calls first, with len(path.Elem): the read of a field through a nil
\* pointer; pathToString alone tests path == nil
classify(c, p) ==
    IF c = "pathToString" THEN Returned(pathToString(p), "nil")
    ELSE IF p.nil THEN Panicked
    ELSE classifierOn(c, p.Elem)

\* the paths of the study: nil, no element, one to six elements, elements
\* without keys
ClassifierInputs ==
    {NilPath}
    \cup UNION {{PathTo(SubSeq(q, 1, n)) : n \in 0..Len(q)} :
             q \in {FilesQuery(r, D_D, t) : r \in {FIRMWARE, SONIC_IMAGE, FILESYSTEM},
                                            t \in {<<Elem(COUNT)>>,
                                                   <<Elem(COUNT), Elem(OTHER_NAME)>>}}
                    \cup {<<Elem(SONIC), Elem(SYSTEM), e3, Elem(e4), Elem(TOTAL_MB)>> :
                             e3 \in {KeyedElem(FILESYSTEM, "path", D_D),
                                     Elem(FILESYSTEM), Elem(FIRMWARE),
                                     Elem(SONIC_IMAGE)},
                             e4 \in {DISK_SPACE, FILES}}}

InitClassify ==
    /\ req = [handler |-> "none", path |-> NilPath]
    /\ resp = Returned(EmptyStr, "none")
    /\ pc = "start"
    /\ rootFS = EmptyStr
    /\ EnableGNOIFile = FALSE
    /\ fs = EmptyFs
    /\ fsLog = <<>>
    /\ inflight = <<>>
    /\ IdleResolver
    /\ IdleClient
    /\ IdleImage

CallClassifier(c, p) ==
    /\ pc \in {"start", "classified"}
    /\ req' = [handler |-> c, path |-> p]
    /\ resp' = classify(c, p)
    /\ pc' = "classified"
    /\ UNCHANGED <<imageName, isSonicImage, inflight, rootFS, EnableGNOIFile, fs,
                   fsPath, impl, resolved, reresolved, fsLog, call, reply, getCalls,
                   result>>

NextClassify == \E c \in Classifiers, p \in ClassifierInputs : CallClassifier(c, p)

SpecClassify == InitClassify /\ [][NextClassify]_vars

(***************************************************************************)
(* internal/file: IsSonicImageFile                                         *)
(***************************************************************************)
Uppers ==
    <<"A", "B", "C", "D", "E", "F", "G", "H", "I", "J", "K", "L", "M", "N", "O", "P",
      "Q", "R", "S", "T", "U", "V", "W", "X", "Y", "Z">>
Lowers ==
    <<"a", "b", "c", "d", "e", "f", "g", "h", "i", "j", "k", "l", "m", "n", "o", "p",
      "q", "r", "s", "t", "u", "v", "w", "x", "y", "z">>

\* strings.ToLower
ToLower(s) ==
    [i \in 1..Len(s) |->
        IF \E k \in 1..Len(Uppers) : Uppers[k] = s[i]
        THEN Lowers[CHOOSE k \in 1..Len(Uppers) : Uppers[k] = s[i]]
        ELSE s[i]]

\* strings.Contains
Contains(s, substr) ==
    \E i \in 0..(Len(s) - Len(substr)) : SubSeq(s, i + 1, i + Len(substr)) = substr

\* filepath.Ext: the suffix from the last dot of the last element of the path
Ext(path) ==
    IF \E i \in 1..Len(path) :
           path[i] = Dot /\ \A j \in i..Len(path) : path[j] # Slash
    THEN SubSeq(path,
                CHOOSE i \in 1..Len(path) :
                    /\ path[i] = Dot
                    /\ \A j \in (i + 1)..Len(path) : path[j] \notin {Dot, Slash},
                Len(path))
    ELSE EmptyStr

SONIC_MARK == <<"s", "o", "n", "i", "c">>
IMG == <<".", "i", "m", "g">>
ISO == <<".", "i", "s", "o">>
QCOW2 == <<".", "q", "c", "o", "w", "2">>
VMDK == <<".", "v", "m", "d", "k">>
sonicImageExts == {IMG, ISO, QCOW2, VMDK}

\* mutant: a file with an image extension is an image whatever its name
IsSonicImageFileByExt(name) ==
    IF Contains(ToLower(name), SONIC_MARK) THEN TRUE
    ELSE IF ToLower(Ext(name)) \in sonicImageExts THEN TRUE
    ELSE FALSE

\* IsSonicImageFile(filename): both returns after the test of the name
\* are "return false"
IsSonicImageFile(name) ==
    IF Contains(ToLower(name), SONIC_MARK) THEN TRUE
    ELSE IF ToLower(Ext(name)) \in sonicImageExts THEN FALSE
    ELSE FALSE

\* names: something before, a stem, something after and an extension
Stems ==
    {EmptyStr, SONIC_MARK, <<"S", "O", "N", "I", "C">>, <<"S", "o", "n", "I", "c">>,
     <<"s", "o", "n", "i">>, <<"s", "o", "n", "i", "k">>, <<"s", "n", "o", "i", "c">>,
     <<"s", "o", "n", "-", "i", "c">>}
Extensions ==
    sonicImageExts \cup {EmptyStr, <<".", "b", "i", "n">>, <<".", "I", "M", "G">>,
                         <<".", "i", "m", "g", ".", "g", "z">>}
FileNames ==
    {before \o stem \o after \o ext :
        before \in {EmptyStr, <<"x", "-">>, <<"d", Slash>>}, stem \in Stems,
        after \in {EmptyStr, <<"-", "v", "s">>}, ext \in Extensions}

InitImage ==
    /\ imageName \in FileNames
    /\ isSonicImage = FALSE
    /\ pc = "start"
    /\ rootFS = EmptyStr
    /\ IdleServer
    /\ IdleResolver
    /\ IdleClient

CallIsSonicImageFile ==
    /\ pc = "start"
    /\ isSonicImage' = IsSonicImageFile(imageName)
    /\ pc' = "classified"
    /\ UNCHANGED <<imageName, inflight, rootFS, EnableGNOIFile, fs, fsPath, impl,
                   resolved, reresolved, req, resp, fsLog, call, reply, getCalls,
                   result>>

NextImage == CallIsSonicImageFile

SpecImage == InitImage /\ [][NextImage]_vars


(***************************************************************************)
(* Claims about the resolver (checked under SpecResolve)                   *)
(***************************************************************************)
Confining(root) == root # EmptyStr /\ root # <<Slash>>

\* p, normalized, is root (normalized) or lies below it
IsWithin(p, root) ==
    LET c == Clean(p)
        r == Clean(root)
    IN  c = r \/ HasPrefix(c, r \o <<Slash>>)

\* p equals root or continues root at a path-segment boundary
HasPathPrefix(p, root) ==
    /\ HasPrefix(p, root)
    /\ \/ Len(p) = Len(root)
       \/ root[Len(root)] = Slash
       \/ p[Len(root) + 1] = Slash

Resolved == pc \in {"resolved", "reresolved"}

\* C1: containment. For every confining root (non-empty, not "/") and every
\* absolute logical path, the resolved path is the root or a descendant of
\* the root after normalization.
C1_Containment ==
    (Resolved /\ Confining(rootFS) /\ IsAbsolute(fsPath))
        => IsWithin(resolved, rootFS)

\* C2: idempotence. Resolving the result of a resolution against the same
\* root gives that result again.
C2_Idempotent ==
    pc = "reresolved" => reresolved = resolved

\* C3: for a confining root and an absolute logical path, the path is
\* returned unchanged exactly when the root is a path prefix of it, and is
\* the root joined with the path, normalized, in every other case.
C3_PathPrefixOrJoin ==
    (Resolved /\ Confining(rootFS) /\ IsAbsolute(fsPath))
        => /\ (resolved = fsPath) <=> HasPathPrefix(fsPath, rootFS)
           /\ ~HasPathPrefix(fsPath, rootFS) => resolved = Join(rootFS, fsPath)

\* C4: the logical path is returned unchanged whenever the root is empty,
\* the root is "/", or the logical path is relative.
C4_UnchangedWithoutConfinement ==
    (Resolved /\ (rootFS = EmptyStr \/ rootFS = <<Slash>> \/ ~IsAbsolute(fsPath)))
        => resolved = fsPath

\* C4 witness: the internal resolver has run on a non-empty relative path
\* under a confining root and handed the path back.
C4_Witness ==
    /\ pc = "resolved"
    /\ impl = "internal"
    /\ Confining(rootFS)
    /\ fsPath # EmptyStr
    /\ ~IsAbsolute(fsPath)
    /\ ~HasPrefix(fsPath, rootFS)
    /\ resolved = fsPath


(***************************************************************************)
(* Claims about the gNMI Get handlers (checked under Spec)                 *)
(***************************************************************************)
Handled == pc = "done"

\* sonic/system/firmware[directory=...]/files with nothing or one element
\* after it
WellFormedFirmwareListing(path) ==
    /\ isFirmwareFilesPath(path)
    /\ Len(path) \in {4, 5}
    /\ "directory" \in DOMAIN path[3].Key

\* C5: with EnableGNOIFile false a well-formed firmware listing query fails
\* with FailedPrecondition and the request performs no filesystem operation
\* (no stat, no walk)
C5_DisabledNoFilesystemAccess ==
    (Handled /\ req.handler = "firmware" /\ ~EnableGNOIFile
        /\ WellFormedFirmwareListing(req.path))
    => (resp.code = "FailedPrecondition" /\ fsLog = <<>>)

\* C5 witness: a disabled server has answered a listing query for /d, a
\* directory that exists on the host
C5_Witness ==
    /\ Handled
    /\ req.handler = "firmware"
    /\ ~EnableGNOIFile
    /\ rootFS = EmptyStr
    /\ WellFormedFirmwareListing(req.path)
    /\ req.path[3].Key["directory"] = D_D
    /\ Kind(D_D) = "dir"
    /\ resp.code = "FailedPrecondition"
    /\ fsLog = <<>>

\* a listing path handed to the handler of its resource kind
ListingRequest ==
    \/ req.handler = "firmware" /\ isFirmwareFilesPath(req.path)
    \/ req.handler = "sonic-image" /\ isSonicImageFilesPath(req.path)

FileFieldOf(handler, path) ==
    IF handler = "firmware" THEN getFirmwareFileField(path)
    ELSE getSonicImageFileField(path)

\* what the handler makes of the field it is given
SelectorOf(f) ==
    IF f.err # "nil" THEN [kind |-> f.err]
    ELSE IF fieldCase(f.val) = "default" THEN [kind |-> "filename", name |-> f.val]
    ELSE [kind |-> fieldCase(f.val)]

\* the selector the path shape stands for
ExpectedSelector(path) ==
    IF Len(path) = 4 THEN [kind |-> "list"]
    ELSE IF Len(path) = 5
    THEN (IF path[5].Name = COUNT THEN [kind |-> "count"]
          ELSE [kind |-> "filename", name |-> path[5].Name])
    ELSE [kind |-> "InvalidStructure"]

\* C6: on a file-listing path length 4 selects the list, length 5 ending in
\* "count" selects the count, length 5 ending in any other name selects that
\* name as the requested filename, every other length is an invalid shape
C6_SelectorResolution ==
    (Handled /\ ListingRequest)
    => SelectorOf(FileFieldOf(req.handler, req.path)) = ExpectedSelector(req.path)

KindMatches(k, path) ==
    CASE k = "filesystem" -> isFilesystemPath(path)
      [] k = "firmware" -> isFirmwarePath(path)
      [] k = "sonic-image" -> isSonicImagePath(path)
      [] k = "disk-space" -> isDiskSpacePath(path)
      [] k = "firmware-files" -> isFirmwareFilesPath(path)
      [] k = "sonic-image-files" -> isSonicImageFilesPath(path)

MatchingKinds(path) ==
    {k \in {"filesystem", "firmware", "sonic-image"} : KindMatches(k, path)}

MatchingShapes(path) ==
    {k \in {"disk-space", "firmware-files", "sonic-image-files"} : KindMatches(k, path)}

\* C7: at most one of isFilesystemPath, isFirmwarePath, isSonicImagePath is
\* true of a path, and at most one of the disk-space and file-listing shapes
C7_AtMostOneKind ==
    Handled => /\ Cardinality(MatchingKinds(req.path)) <= 1
               /\ Cardinality(MatchingShapes(req.path)) <= 1

\* C7 witness: a firmware listing path was handled; it is of one kind and
\* one shape
C7_Witness ==
    /\ Handled
    /\ MatchingKinds(req.path) = {"firmware"}
    /\ MatchingShapes(req.path) = {"firmware-files"}

\* the extraction e of key from element 2 of path: the value verbatim when
\* the key is there, the missing-parameter error when it is not
ExtractsKey(e, path, key, missing) ==
    IF key \in DOMAIN path[3].Key
    THEN e.err = "nil" /\ e.val = path[3].Key[key]
    ELSE e.err = missing

\* the handler of the path's kind answered the missing key
RejectsMissingKey(handler, enabled, path, key, missing) ==
    (req.handler = handler /\ enabled /\ key \notin DOMAIN path[3].Key)
    => (resp.code = "InvalidArgument" /\ resp.err = missing /\ fsLog = <<>>)

\* C8: extraction fails with its own missing-parameter error, never a
\* default, when the expected key ("path" for filesystem, "directory" for
\* firmware and sonic-image) is absent from element 2, and returns the value
\* verbatim when the key is present
C8_MissingParameter ==
    Handled =>
        /\ isFilesystemPath(req.path) =>
              /\ ExtractsKey(extractFilesystemPath(req.path), req.path, "path",
                             "PathNotSpecified")
              /\ RejectsMissingKey("filesystem", TRUE, req.path, "path",
                                   "PathNotSpecified")
        /\ isFirmwarePath(req.path) =>
              /\ ExtractsKey(extractFirmwareDirectory(req.path), req.path,
                             "directory", "DirectoryNotSpecified")
              /\ RejectsMissingKey("firmware", EnableGNOIFile, req.path,
                                   "directory", "DirectoryNotSpecified")
        /\ isSonicImagePath(req.path) =>
              /\ ExtractsKey(extractSonicImageDirectory(req.path), req.path,
                             "directory", "DirectoryNotSpecified")
              /\ RejectsMissingKey("sonic-image", TRUE, req.path, "directory",
                                   "DirectoryNotSpecified")

\* C8 witness: a filesystem query without the "path" key was refused
C8_Witness ==
    /\ Handled
    /\ req.handler = "filesystem"
    /\ isDiskSpacePath(req.path)
    /\ "path" \notin DOMAIN req.path[3].Key
    /\ resp.code = "InvalidArgument"
    /\ resp.err = "PathNotSpecified"

MissingParameterErrors == {"PathNotSpecified", "DirectoryNotSpecified"}

\* a listing path whose directory key is there but empty, or whose 5th
\* element is the empty name
EmptyParameter(path) ==
    /\ Len(path) \in {4, 5}
    /\ "directory" \in DOMAIN path[3].Key
    /\ \/ path[3].Key["directory"] = EmptyStr
       \/ Len(path) = 5 /\ path[5].Name = EmptyStr

\* C9: a listing query with an empty directory value or an empty filename
\* fails with the missing-parameter error, for firmware and for sonic-image
C9_EmptyParameterRejected ==
    (Handled /\ ListingRequest /\ EmptyParameter(req.path)
        /\ (req.handler = "firmware" => EnableGNOIFile))
    => (resp.code = "InvalidArgument" /\ resp.err \in MissingParameterErrors)

(***************************************************************************)
(* Claims about the client methods (checked under SpecClient)              *)
(***************************************************************************)
\* C10: a client method called with an empty directory, and a file-info
\* method called with an empty filename, returns a 'required' error and no
\* Get request has been issued
C10_RequiredBeforeGet ==
    (pc = "returned"
        /\ (call.directory = EmptyStr
            \/ (call.method \in InfoMethods /\ call.filename = EmptyStr)))
    => /\ result.err = (IF call.directory = EmptyStr THEN "DirectoryRequired"
                        ELSE "FilenameRequired")
       /\ getCalls = <<>>

\* C10 witness: GetSonicImageFileInfo was called with a directory and an
\* empty filename and returned the error without a Get
C10_Witness ==
    /\ pc = "returned"
    /\ call.method = "GetSonicImageFileInfo"
    /\ call.directory = D_D
    /\ call.filename = EmptyStr
    /\ result.err = "FilenameRequired"
    /\ getCalls = <<>>


(***************************************************************************)
(* Claims about the directory listing (checked under Spec)                 *)
(***************************************************************************)
\* the request walked a directory tree: its log holds the stat and the walk
Walked == Handled /\ ListingRequest /\ Len(fsLog) = 2

\* the path the walk started from
WalkedRoot == fsLog[2].path

\* a list response
Listed == Walked /\ resp.code = "OK" /\ resp.value.shape = "list"

\* the entries of the host below root, root itself left out
Descendants(root) ==
    {e \in DOMAIN fs.kind :
        /\ e # Abs(root)
        /\ HasPrefix(NonEmptySegs(e), NonEmptySegs(Abs(root)))}

\* the path of entry e relative to root, in the host's convention
NameOf(e, root) ==
    HostPath(JoinSegs(SubSeq(NonEmptySegs(e), Len(NonEmptySegs(Abs(root))) + 1,
                             Len(NonEmptySegs(e)))))

NamesOf(files) == {files[i].Name : i \in 1..Len(files)}

NoEntryError == fs.unreadable = {} /\ fs.noInfo = {}

\* C11: a successful listing leaves out the walked root and holds every
\* descendant of it, file or directory at any depth, exactly once, when no
\* per-entry error occurs
C11_EveryDescendantOnce ==
    (Listed /\ NoEntryError)
    => /\ <<Dot>> \notin NamesOf(resp.value.files)
       /\ NamesOf(resp.value.files)
              = {NameOf(e, WalkedRoot) : e \in Descendants(WalkedRoot)}
       /\ Len(resp.value.files) = Cardinality(Descendants(WalkedRoot))

\* C11 witness: /f was listed: four records, one of them two levels down
C11_Witness ==
    /\ Listed
    /\ NoEntryError
    /\ WalkedRoot = D_F
    /\ Len(resp.value.files) = 4
    /\ \E i \in 1..4 : resp.value.files[i].Name = HostPath(SUB \o <<Slash>> \o C_BIN)


\* a count response
Counted == Walked /\ resp.code = "OK" /\ resp.value.shape = "count"

\* the listing of the directory the request in hand names
ListingOfRequest ==
    IF req.handler = "firmware"
    THEN ListFirmwareFiles(req.path[3].Key["directory"])
    ELSE ListSonicImageFiles(req.path[3].Key["directory"], rootFS)

\* C12 as claimed: for a directory with N descendant entries count equals N
\* equals the number of records of the list, and file_count equals the
\* length of files
C12_CountIsN ==
    /\ Counted => /\ resp.value.count = Cardinality(Descendants(WalkedRoot))
                  /\ resp.value.count = Len(ListingOfRequest.files)
    /\ Listed => /\ Len(resp.value.files) = Cardinality(Descendants(WalkedRoot))
                 /\ resp.value.file_count = Len(resp.value.files)

\* C12 amended: count equals the number of records of the list and
\* file_count the length of files; both equal N when no per-entry error
\* occurs
C12_CountIsListLength ==
    /\ Counted => /\ resp.value.count = Len(ListingOfRequest.files)
                  /\ NoEntryError =>
                        resp.value.count = Cardinality(Descendants(WalkedRoot))
    /\ Listed => /\ resp.value.file_count = Len(resp.value.files)
                 /\ NoEntryError =>
                        resp.value.file_count = Cardinality(Descendants(WalkedRoot))

\* C12 witness: the count of /r/d, which holds a, s and s/c, is 3
C12_Witness ==
    /\ Counted
    /\ NoEntryError
    /\ WalkedRoot = D_RD
    /\ Cardinality(Descendants(WalkedRoot)) = 3
    /\ resp.value.count = 3


\* the request walked /f, which holds the files a.bin and b.fw and the
\* subdirectory sub holding c.bin
WalkedF ==
    /\ Walked
    /\ resp.code = "OK"
    /\ WalkedRoot = D_F
    /\ Descendants(D_F) = {D_F \o <<Slash>> \o n :
                              n \in {A_BIN, B_FW, SUB, SUB \o <<Slash>> \o C_BIN}}
    /\ fs.kind[D_F \o <<Slash>> \o SUB] = "dir"
    /\ \A n \in {A_BIN, B_FW, SUB \o <<Slash>> \o C_BIN} :
           fs.kind[D_F \o <<Slash>> \o n] = "file"

\* the list holds exactly four records, named a.bin, b.fw, sub and nested,
\* sub the one directory among them
FourRecords(files, nested) ==
    /\ Len(files) = 4
    /\ NamesOf(files) = {A_BIN, B_FW, SUB, nested}
    /\ \A i \in 1..Len(files) : files[i].IsDirectory <=> files[i].Name = SUB

InfoOfRequest(filename) ==
    IF req.handler = "firmware"
    THEN GetFirmwareFileInfo(req.path[3].Key["directory"], filename)
    ELSE GetSonicImageFileInfo(req.path[3].Key["directory"], filename, rootFS)

\* names asked for that may or may not be in a listing: the names queries
\* carry, a last element without its subdirectory, another case
ProbeNames == Elem5Names \cup {<<"c">>, <<"A">>, <<"S", Slash, "c">>, C_BIN}

\* a handled query for a file by name
FileQueried ==
    /\ Walked
    /\ Len(req.path) = 5
    /\ fieldCase(req.path[5].Name) = "default"

InfoMatches(files, names) ==
    /\ \A i, j \in 1..Len(files) : files[i].Name = files[j].Name => i = j
    /\ \A n \in names :
           /\ InfoOfRequest(n).err = "nil"
           /\ InfoOfRequest(n).file.Name = n
           /\ \E i \in 1..Len(files) : files[i] = InfoOfRequest(n).file
    /\ \A n \in ProbeNames \ names : InfoOfRequest(n).err = "FileNotFound"
    /\ FileQueried =>
           IF req.path[5].Name \in names
           THEN /\ resp.code = "OK"
                /\ resp.value.shape = "file"
                /\ resp.value.file.Name = req.path[5].Name
                /\ \E i \in 1..Len(files) : files[i] = resp.value.file
           ELSE resp.err = "FileNotFound"

\* C14: info(D, filename) returns the one record whose name equals filename
\* exactly (the whole relative path) for every name in list(D), the names
\* of a listing being pairwise distinct, and fails with not-found for every
\* name that is not in list(D)
C14_InfoByExactName ==
    Walked => InfoMatches(ListingOfRequest.files, NamesOf(ListingOfRequest.files))

\* C14 witness: the nested file s/c of /r/d was asked for by its relative
\* path and its record returned
C14_Witness ==
    /\ FileQueried
    /\ WalkedRoot = D_RD
    /\ req.path[5].Name = <<"s", Slash, "c">>
    /\ resp.code = "OK"
    /\ resp.value.file = [Name |-> <<"s", Slash, "c">>, IsDirectory |-> FALSE]


\* the request reached the listing: its log starts with the stat of the
\* resolved directory
ListingTried == Handled /\ ListingRequest /\ Len(fsLog) >= 1

\* a is an entry above e
IsAbove(a, e) == a # e /\ HasPrefix(NonEmptySegs(e), NonEmptySegs(a))

\* the descendants of root the walk can read: their Info succeeds and no
\* directory from root down to them fails to be read
ReadableDescendants(root) ==
    {e \in Descendants(root) :
        /\ e \notin fs.noInfo
        /\ \A a \in fs.unreadable :
               (a = Abs(root) \/ a \in Descendants(root)) => ~IsAbove(a, e)}

\* C15: an error on an entry during the traversal never fails the listing:
\* the request succeeds with the records of the entries that could be read,
\* and only the stat of the root directory gives a whole-request error
C15_EntryErrorsSkipped ==
    ListingTried
    => /\ Stat(fsLog[1].path) = "nil"
              => /\ Walked
                 /\ resp.err \in {"nil", "FileNotFound"}
                 /\ ListingOfRequest.err = "nil"
                 /\ (Len(req.path) = 4 \/ fieldCase(req.path[5].Name) # "default")
                        => resp.code = "OK"
       /\ resp.err \in {"DirNotExist", "AccessFailed"}
              => Stat(fsLog[1].path) # "nil" /\ Len(fsLog) = 1
       /\ Listed => NamesOf(resp.value.files)
                        = {NameOf(e, WalkedRoot) : e \in ReadableDescendants(WalkedRoot)}

\* C15 witness: /r/d was listed although its subdirectory s cannot be read;
\* the list holds a and s
C15_Witness ==
    /\ Listed
    /\ WalkedRoot = D_RD
    /\ (D_RD \o <<Slash, "s">>) \in fs.unreadable
    /\ NamesOf(resp.value.files) = {<<"a">>, <<"s">>}


\* the concrete path the directory of the request in hand resolves to
ResolvedOfRequest ==
    IF req.handler = "firmware"
    THEN gnoiResolveFilesystemPath(req.path[3].Key["directory"], rootFS)
    ELSE resolveFilesystemPath(req.path[3].Key["directory"], rootFS)

\* the request failed with the error kind, whose message names the logical
\* directory, after the stat alone and without a value
FailedOnStat(kind) ==
    /\ resp.code # "OK"
    /\ resp.err = kind
    /\ resp.about = req.path[3].Key["directory"]
    /\ resp.value = NoValue
    /\ Len(fsLog) = 1

\* C16: list, count and info on a directory whose resolved path does not
\* exist fail with 'directory does not exist', naming the logical path;
\* any other failure of the stat gives the access error; no records either
\* way
C16_StatErrors ==
    ListingTried
    => /\ fsLog[1] = StatOp(ResolvedOfRequest)
       /\ Stat(ResolvedOfRequest) = "ENOENT" => FailedOnStat("DirNotExist")
       /\ Stat(ResolvedOfRequest) \notin {"nil", "ENOENT"}
              => FailedOnStat("AccessFailed")

\* C16 witness: with rootFS /r the count of /e was asked for; /r/e does
\* not exist and the error names /e
C16_Witness ==
    /\ ListingTried
    /\ rootFS = R_R
    /\ Len(req.path) = 5
    /\ req.path[5].Name = COUNT
    /\ fsLog = <<StatOp(R_R \o D_E)>>
    /\ resp.err = "DirNotExist"
    /\ resp.about = D_E


(***************************************************************************)
(* Claims about the responses (checked under Spec)                         *)
(***************************************************************************)
\* the selector the handler took from the path of the request in hand
SelectorOfRequest == SelectorOf(FileFieldOf(req.handler, req.path)).kind

\* the value is an envelope with these fields around the logical directory
EnvelopeOf(value, fields) ==
    /\ DOMAIN value = {"shape", "directory"} \cup fields
    /\ value.directory = req.path[3].Key["directory"]

\* C17: a successful file-listing request returns one of three shapes, as
\* the selector says: a bare integer for count, {directory, file} for a
\* filename, {directory, file_count, files} for list; directory is the
\* logical directory asked for, never the resolved path
C17_ShapeBySelector ==
    (Handled /\ ListingRequest /\ resp.code = "OK")
    => /\ resp.value.shape = (CASE SelectorOfRequest = "count" -> "count"
                                [] SelectorOfRequest = "list" -> "list"
                                [] SelectorOfRequest = "filename" -> "file")
       /\ resp.value.shape = "count"
              => DOMAIN resp.value = {"shape", "count"} /\ resp.value.count \in Nat
       /\ resp.value.shape = "file" => EnvelopeOf(resp.value, {"file"})
       /\ resp.value.shape = "list" => EnvelopeOf(resp.value, {"file_count", "files"})

\* C17 witness: with rootFS /r the list of /d was returned: the files of
\* /r/d in an envelope whose directory is /d
C17_Witness ==
    /\ Listed
    /\ rootFS = R_R
    /\ req.handler = "firmware"
    /\ WalkedRoot = D_RD
    /\ resp.value.directory = D_D
    /\ resp.value.file_count = 3


\* a disk-space query with its path parameter and one of the three metric
\* selectors, on a filesystem whose capacity can be read
DiskSpaceQueried ==
    /\ Handled
    /\ req.handler = "filesystem"
    /\ isDiskSpacePath(req.path)
    /\ "path" \in DOMAIN req.path[3].Key
    /\ getDiskSpaceField(req.path).err = "nil"
    /\ GetDiskSpace(gnmiResolveFilesystemPath(req.path[3].Key["path"], rootFS)).err
           = "nil"

\* the fields of the value a metric selects
MetricFields(metric) ==
    CASE metric = "total" -> {"total_mb"}
      [] metric = "available" -> {"available_mb"}
      [] metric = "both" -> {"total_mb", "available_mb"}

\* C18: a disk-space query selects total, available or both by ending at
\* total-mb, at available-mb or at disk-space, and the value holds the path
\* and only the fields of the metric asked for
C18_MetricFields ==
    DiskSpaceQueried
    => /\ resp.code = "OK"
       /\ resp.value.shape = "diskspace"
       /\ resp.value.path = req.path[3].Key["path"]
       /\ DOMAIN resp.value
              = {"shape", "path"} \cup MetricFields(getDiskSpaceField(req.path).val)


\* the path of entry e relative to root, written with '/'
SlashNameOf(e, root) ==
    JoinSegs(SubSeq(NonEmptySegs(e), Len(NonEmptySegs(Abs(root))) + 1,
                    Len(NonEmptySegs(e))))

\* C19: a record's name is the entry's path relative to the resolved root,
\* written with '/' between the elements of a nested entry whatever the
\* separator of the host is, never absolute and never with a '..' element
C19_SlashRelativeNames ==
    Listed
    => /\ NamesOf(resp.value.files) \subseteq
              {SlashNameOf(e, WalkedRoot) : e \in Descendants(WalkedRoot)}
       /\ \A n \in NamesOf(resp.value.files) :
              /\ n # EmptyStr
              /\ n[1] \notin {Slash, fs.sep}
              /\ \A k \in 1..Len(Segments(n)) : Segments(n)[k] # DotDot


\* a sonic-image list, count or file query for an existing directory and,
\* for a file query, a file the directory holds
SonicImageQueried ==
    /\ Handled
    /\ req.handler = "sonic-image"
    /\ isSonicImageFilesPath(req.path)
    /\ Len(req.path) \in {4, 5}
    /\ "directory" \in DOMAIN req.path[3].Key
    /\ Stat(ResolvedOfRequest) = "nil"
    /\ SelectorOfRequest = "filename"
           => req.path[5].Name \in NamesOf(ListingOfRequest.files)

FirmwareCondition ==
    IF ~EnableGNOIFile THEN "disabled"
    ELSE IF ~isFirmwarePath(req.path) \/ "directory" \notin DOMAIN req.path[3].Key
    THEN "malformed"
    ELSE IF ~isFirmwareFilesPath(req.path) THEN "unsupported"
    ELSE IF Len(req.path) \notin {4, 5} THEN "malformed"
    ELSE IF Stat(ResolvedOfRequest) = "ENOENT" THEN "directory-not-found"
    ELSE IF Stat(ResolvedOfRequest) # "nil" THEN "directory-inaccessible"
    ELSE IF /\ ExpectedSelector(req.path).kind = "filename"
            /\ req.path[5].Name \notin NamesOf(ListingOfRequest.files)
    THEN "file-not-found"
    ELSE "none"

\* the status code documented for a condition
DocumentedCode(condition) ==
    CASE condition = "disabled" -> "FailedPrecondition"
      [] condition = "malformed" -> "InvalidArgument"
      [] condition = "unsupported" -> "NotFound"
      [] condition \in {"directory-not-found", "directory-inaccessible",
                        "file-not-found"} -> "Internal"
      [] condition = "none" -> "OK"

\* C21: a failing firmware request gets the status code documented for its
\* condition: FailedPrecondition when the subsystem is disabled,
\* InvalidArgument for a malformed path (no directory key, or a length other
\* than 4 or 5 under files), Internal when the directory is not found or
\* cannot be accessed or the requested file is not found; no failure is
\* answered as a success
C21_StatusByCondition ==
    (Handled /\ req.handler = "firmware")
    => /\ resp.code = DocumentedCode(FirmwareCondition)
       /\ resp.code = "OK" <=> resp.value # NoValue



(***************************************************************************)
(* Claims about concurrent requests (checked under SpecConcurrent)         *)
(***************************************************************************)
\* what the handler returns for the request when it runs alone
Alone(f) ==
    CASE f.handler = "firmware" -> handleFirmwarePath(f.path)
      [] f.handler = "sonic-image" -> handleSonicImagePath(f.path)
      [] f.handler = "filesystem" -> handleFilesystemPath(f.path)

SameAsAlone ==
    \A i \in Calls :
        inflight[i].at = "done"
        => /\ inflight[i].resp = Alone(inflight[i]).resp
           /\ inflight[i].log = Alone(inflight[i]).log

\* C22: no step of request handling writes rootFS or EnableGNOIFile, and
\* whatever the interleaving of the requests handled at the same time over
\* an unchanged filesystem, each request returns what it returns when it
\* runs alone
C22_NoSharedWrites ==
    /\ [][rootFS' = rootFS /\ EnableGNOIFile' = EnableGNOIFile /\ fs' = fs]_vars
    /\ []SameAsAlone

\* C22 witness: two listings are answered at the same time, the other
\* request having been stat-ed and walked in between
C22_Witness ==
    /\ inflight[1].at = "done"
    /\ inflight[2].at = "done"
    /\ inflight[1].handler = "firmware"
    /\ inflight[2].handler = "sonic-image"
    /\ inflight[1].resp.code = "OK"
    /\ inflight[2].resp.code = "OK"
    /\ Len(inflight[1].log) = 2
    /\ Len(inflight[2].log) = 2



(***************************************************************************)
(* Claims about retries (checked under Spec)                               *)
(***************************************************************************)
\* the operations of kind op in the log of the request in hand
OpsOf(op) == {k \in DOMAIN fsLog : fsLog[k].op = op}

\* C23: no internal retry: a listing request (list, count or file info)
\* stats the resolved root at most once and walks it at most once, the walk
\* only after a stat that succeeded, and a failure is returned with no
\* further filesystem operation: none at all for a request refused before the
\* listing, the one failed stat for a directory error
C23_NoRetry ==
    (Handled /\ ListingRequest)
    => /\ Cardinality(OpsOf("stat")) <= 1
       /\ Cardinality(OpsOf("walk")) <= 1
       /\ OpsOf("statfs") = {}
       /\ OpsOf("walk") # {}
              => /\ fsLog = <<StatOp(ResolvedOfRequest), WalkOp(ResolvedOfRequest)>>
                 /\ Stat(ResolvedOfRequest) = "nil"
       /\ resp.code \in {"FailedPrecondition", "InvalidArgument"} => fsLog = <<>>
       /\ resp.err \in {"DirNotExist", "AccessFailed"}
              => fsLog = <<StatOp(ResolvedOfRequest)>>

\* C23 witness: the file a of /r/d was asked for; the stat of /r/d was
\* refused and the request failed after that one operation
C23_Witness ==
    /\ Handled
    /\ ListingRequest
    /\ Kind(D_RD) = "denied"
    /\ Len(req.path) = 5
    /\ req.path[5].Name = <<"a">>
    /\ resp.code = "Internal"
    /\ resp.err = "AccessFailed"
    /\ fsLog = <<StatOp(D_RD)>>



(***************************************************************************)
(* Claims about IsSonicImageFile (checked under SpecImage)                 *)
(***************************************************************************)
\* the name spells "sonic" somewhere, in letters of either case
SpellsSonic(name) ==
    \E i \in 0..(Len(name) - 5) :
        \A k \in 1..5 : name[i + k] \in {SONIC_MARK[k], Uppers[CHOOSE u \in 1..26 :
                                                          Lowers[u] = SONIC_MARK[k]]}

\* C24: IsSonicImageFile(filename) is true exactly when the lower-cased
\* name contains "sonic"; the extension never changes the result: a name
\* without "sonic" is false with .img, .iso, .qcow2 or .vmdk after it, and
\* the empty name is false
C24_SonicInNameOnly ==
    pc = "classified"
    => /\ isSonicImage = SpellsSonic(imageName)
       /\ \A ext \in sonicImageExts :
              IsSonicImageFile(imageName \o ext) = isSonicImage
       /\ imageName = EmptyStr => ~isSonicImage
       /\ Ext(imageName) \in sonicImageExts /\ ~SpellsSonic(imageName) => ~isSonicImage

\* C24 witness: x-soni-vs.img, an image extension without "sonic" in the
\* name, was classified: not an image
C24_Witness ==
    /\ pc = "classified"
    /\ imageName = <<"x", "-", "s", "o", "n", "i", "-", "v", "s">> \o IMG
    /\ Ext(imageName) = IMG
    /\ ~isSonicImage



(***************************************************************************)
(* Claims about the classifiers (checked under SpecClassify)               *)
(***************************************************************************)
Predicates ==
    {"isFilesystemPath", "isDiskSpacePath", "isFirmwarePath", "isFirmwareFilesPath",
     "isSonicImagePath", "isSonicImageFilesPath"}

\* the call returned: a predicate its verdict, an extractor its parameter
\* or its error
DefiniteAnswer ==
    /\ ~resp.panic
    /\ req.handler \in Predicates => resp.val \in BOOLEAN /\ resp.err = "nil"

\* C25: classification is total: for every path value, a nil path, an empty
\* element list, fewer than 3 or 4 elements and elements without keys
\* included, every classifier predicate and extractor returns a match with
\* its parameters, a non-match or an error, and never faults
C25_ClassificationTotal ==
    pc = "classified" => DefiniteAnswer



(***************************************************************************)
(* Claims about the order of the checks (checked under Spec)               *)
(***************************************************************************)
\* a path the firmware handler refuses for its shape when the subsystem is
\* enabled: no directory key, a 4th element other than files, a length
\* other than 4 or 5
Misshapen(path) ==
    \/ ~isFirmwarePath(path)
    \/ "directory" \notin DOMAIN path[3].Key
    \/ ~isFirmwareFilesPath(path)
    \/ Len(path) \notin {4, 5}

\* C26: in the firmware handler the test of the flag comes before every
\* other check: with the subsystem disabled every path handed to the
\* handler, one without the directory key, with a 4th element other than
\* files or of an invalid length included, fails with FailedPrecondition,
\* never InvalidArgument or NotFound
C26_FlagFirst ==
    (Handled /\ req.handler = "firmware" /\ ~EnableGNOIFile)
    => /\ resp.code = "FailedPrecondition"
       /\ resp.err = "GNOIFileDisabled"
       /\ resp.value = NoValue

\* C26 witness: a disabled server was asked for
\* /sonic/system/firmware/x/count, a path without the directory key and
\* without files, and answered FailedPrecondition
C26_Witness ==
    /\ Handled
    /\ req.handler = "firmware"
    /\ ~EnableGNOIFile
    /\ isFirmwarePath(req.path)
    /\ "directory" \notin DOMAIN req.path[3].Key
    /\ Len(req.path) = 5
    /\ ~isFirmwareFilesPath(req.path)
    /\ Misshapen(req.path)
    /\ resp.code = "FailedPrecondition"



(***************************************************************************)
(* Claims about client and server together (checked under SpecClient)      *)
(***************************************************************************)
\* the method in hand issued its Get
Queried == pc = "returned" /\ Len(getCalls) = 1

\* the resource kind the method in hand is about
KindOfCall ==
    IF call.method \in {"GetFirmwareFiles", "GetFirmwareFileCount",
                        "GetFirmwareFileInfo"}
    THEN "firmware" ELSE "sonic-image"

\* the selector the method in hand asks for
SelectorOfCall ==
    IF call.method \in {"GetFirmwareFiles", "GetSonicImageFiles"}
    THEN [kind |-> "list"]
    ELSE IF call.method \in {"GetFirmwareFileCount", "GetSonicImageFileCount"}
    THEN [kind |-> "count"]
    ELSE IF call.filename = COUNT THEN [kind |-> "count"]
    ELSE [kind |-> "filename", name |-> call.filename]

\* the directory the server extracts from the path
DirectoryOf(kind, path) ==
    IF kind = "firmware" THEN extractFirmwareDirectory(path)
    ELSE extractSonicImageDirectory(path)

\* C27: the path a client listing method builds for directory d (and
\* filename f) is classified by the server as a file-listing query of the
\* same resource kind, with directory d and the selector list, count or f of
\* the method; f = "count", which is classified as the count selector, is
\* the only exception
C27_ClientServerAgree ==
    Queried
    => /\ MatchingKinds(getCalls[1]) = {KindOfCall}
       /\ MatchingShapes(getCalls[1]) = {KindOfCall \o "-files"}
       /\ DirectoryOf(KindOfCall, getCalls[1]) = [val |-> call.directory, err |-> "nil"]
       /\ SelectorOf(FileFieldOf(KindOfCall, getCalls[1])) = SelectorOfCall



(***************************************************************************)
(* Claims about the name "count" (checked under Spec)                      *)
(***************************************************************************)
\* a listing path of length 5 that ends in "count", handed to a handler
\* that is enabled
CountPath ==
    /\ Handled
    /\ ListingRequest
    /\ Len(req.path) = 5
    /\ req.path[5].Name = COUNT
    /\ "directory" \in DOMAIN req.path[3].Key
    /\ req.handler = "firmware" => EnableGNOIFile

\* C28: a listing path of length 5 whose 5th element is "count" yields the
\* bare integer count, also when the directory holds an entry named
\* "count"; the dispatcher never returns the single-file envelope of that
\* entry, whose record is in the full list only
C28_CountNeverAFile ==
    /\ (CountPath /\ Stat(ResolvedOfRequest) = "nil")
           => /\ resp.code = "OK"
              /\ DOMAIN resp.value = {"shape", "count"}
              /\ resp.value.count = Len(ListingOfRequest.files)
    /\ CountPath => resp.value.shape \in {"count", "none"}
    /\ (Handled /\ ListingRequest /\ resp.code = "OK" /\ resp.value.shape = "file")
           => resp.value.file.Name # COUNT
    /\ (Listed /\ NoEntryError /\ (Abs(WalkedRoot) \o <<Slash>> \o COUNT) \in DOMAIN fs.kind)
           => \E k \in 1..Len(resp.value.files) : resp.value.files[k].Name = COUNT

\* C28 witness: /d holds a file named count; the count of /d was asked for
\* and the answer is the integer 3
C28_Witness ==
    /\ CountPath
    /\ Walked
    /\ WalkedRoot = D_D
    /\ Kind(D_D \o <<Slash>> \o COUNT) = "file"
    /\ COUNT \in NamesOf(ListingOfRequest.files)
    /\ resp.value = [shape |-> "count", count |-> 3]



(***************************************************************************)
(* Claims about the copies of the resolver (checked under SpecResolve)     *)
(***************************************************************************)
\* C29: the three copies of the rootFS resolver, the method of the gNOI file
\* server, the function of the internal file package and the method of the
\* gNMI server, return the same concrete path for every pair of logical
\* path and root
C29_CopiesAgree ==
    Resolved
    => /\ resolved = gnoiResolveFilesystemPath(fsPath, rootFS)
       /\ resolved = resolveFilesystemPath(fsPath, rootFS)
       /\ resolved = gnmiResolveFilesystemPath(fsPath, rootFS)
       /\ pc = "reresolved"
              => \A which \in {"gnoi", "internal", "gnmi"} :
                     reresolved = Resolve(which, resolved, rootFS)

\* C29 witness: the gNMI server's copy ran on a path with a '..' element
\* that starts with a confining root and returned it as it is, as the other
\* two copies do
C29_Witness ==
    /\ Resolved
    /\ impl = "gnmi"
    /\ Confining(rootFS)
    /\ HasPrefix(fsPath, rootFS)
    /\ Clean(fsPath) # fsPath
    /\ resolved = fsPath



(***************************************************************************)
(* Claims about a path that is not a directory (checked under Spec)        *)
(***************************************************************************)
\* the request in hand listed a resolved path that is a regular file
FileListed == ListingTried /\ Kind(ResolvedOfRequest) = "file"

\* C30: listing a resolved path that exists and is a regular file, not a
\* directory, succeeds with an empty sequence of records: count returns 0
\* and info fails with file-not-found for every filename; the request does
\* not fail with the not-exist or the access error
C30_RegularFileListsEmpty ==
    FileListed
    => /\ Walked
       /\ ListingOfRequest.err = "nil"
       /\ ListingOfRequest.files = <<>>
       /\ CountFiles(ListingOfRequest).err = "nil"
       /\ CountFiles(ListingOfRequest).count = 0
       /\ \A n \in ProbeNames : InfoOfRequest(n).err = "FileNotFound"
       /\ resp.err \notin {"DirNotExist", "AccessFailed"}
       /\ Listed => resp.value.files = <<>> /\ resp.value.file_count = 0
       /\ Counted => resp.value.count = 0
       /\ FileQueried => resp.code = "Internal" /\ resp.err = "FileNotFound"

\* C30 witness: /d is a regular file and its count was asked for: 0
C30_Witness ==
    /\ FileListed
    /\ Counted
    /\ WalkedRoot = D_D
    /\ fs.kind[D_D] = "file"
    /\ resp.value.count = 0

====
